---------------------------- MODULE Spec2Model ----------------------------
(***************************************************************************)
(* A model of the dayawarga-senyar scripts:                                *)
(*   - the name normalizer of scripts/lookup_kecamatan_from_desa.py,       *)
(*   - the code resolvers of scripts/update_faskes_kecamatan_desa.py and   *)
(*     scripts/dump_posko_odk.py,                                          *)
(*   - the identifier reconciler scripts/sync_entity_uuids.py,             *)
(*   - the property sync scripts/update_odk_entities.py,                   *)
(*   - the runs of scripts/update_faskes_kecamatan_desa.py,                *)
(*     scripts/import_jembatan_entities.py, scripts/update_odk_photos.py   *)
(*     and scripts/approve_submissions.py on their data,                   *)
(* each against the entity platform (ODK Central) and the relational store *)
(* (PostgreSQL) they talk to.                                              *)
(*                                                                         *)
(* Strings that the code transforms are sequences of one-character         *)
(* strings; strings that the code only compares are TLA+ strings.          *)
(***************************************************************************)
EXTENDS Integers, Sequences, FiniteSets, TLC

VARIABLES
    \* ---- name normalizer (SpecNames)
    name,           \* the raw input string
    nm_op,          \* which transform was applied: "none" | "normalize" | "fuzzy"
    nm_once,        \* the transform applied once to name
    nm_twice,       \* the transform applied to nm_once
    \* ---- the entity platform and the relational store
    entities,       \* uuid -> [label, version, data]: the dataset posko_entities
    locations,      \* id -> [nama, entity_id, deleted, data]: the table locations
    edits,          \* how many changes other actors have made
    \* ---- update_odk_entities.main (SpecSync)
    pc,             \* where main is
    odk_entities,   \* the entity list fetched at the start of the run
    pg_data,        \* entity_id -> loc_data, as get_pg_data_via_docker returns it
    idx,            \* position of the for loop in odk_entities
    base_version,   \* what get_entity_version returned for the current entity
    outcome,        \* uuid -> which counter the entity went to
    sent,           \* uuid -> the requests main sent for the entity, in order
    status,         \* uuid -> status code of the PATCH answers, in order
    srun,           \* which run of update_odk_entities.py this is
    sruns,          \* the runs before it: how each ended and what it did
    \* ---- sync_entity_uuids.main (SpecReconcile)
    rpc,            \* where main is
    odk_by_label,   \* label -> uuid
    pg_locations,   \* the rows get_pg_locations returned
    loc_idx,        \* position of the for loop in pg_locations
    result,         \* location id -> which branch the record took
    calls,          \* the calls of update_pg_entity_id, in order
    run,            \* which run of the script this is
    dirty,          \* an update failed or another actor changed something
                    \* since this run began
    runs,           \* the finished runs: their calls, and whether they were clean
    \* ---- the code resolvers (SpecResolve)
    backbone,       \* the rows of provinsi.csv, kota_kab.csv, kecamatan.csv, desa.csv
    row,            \* the raw names of one input record
    resolver,       \* which resolver ran: "none" | "faskes" | "posko"
    sel,            \* the codes it found
    emitted,        \* the codes it hands on for the record
    \* ---- the scripts with a --dry-run flag (SpecDryRun)
    script,         \* which script runs
    dry_run,        \* args.dry_run
    spc,            \* where its main is
    requests,       \* the requests it has sent to the platform, in order
    items,          \* the records its loop has still to go through
    dataset_exists, \* the platform has the dataset jembatan_entities
    \* ---- update_faskes_kecamatan_desa.main on its data (SpecFaskes)
    faskes_entities,\* uuid -> [label, version, data]: the dataset faskes_entities
    faskes_data,    \* label -> csv_info, as load_faskes_data returns it
    fpc,            \* where main is
    entity_list,    \* the entity list fetched at the start of the run
    fidx,           \* position of the for loop in entity_list
    entity_detail,  \* what get_entity returned for the current entity
    fetched_data,   \* the property map the platform held at that GET
    updates,        \* the calls of update_entity, in order, with their answers
    \* ---- import_jembatan_entities.main on its data (SpecImport)
    jembatan_entities, \* the dataset jembatan_entities: its entities in the
                    \* order they were created, each with its label
    features,       \* the names of the features of the GeoJSON file
    import_limit,   \* args.limit
    jpc,            \* where main is
    entities_to_import, \* the labels of the entities main is going to create
    jidx,           \* position of the for loop in entities_to_import
    jrun,           \* which run of the script this is
    success_count,  \* the entities this run has created
    last_run,       \* how the run before this one went
    \* ---- update_odk_photos.main on its data (SpecPhotos)
    mapping,        \* the entries of entity_mapping.json
    photo_limit,    \* args.limit
    progress,       \* the progress file: processed, failed, skipped
    submissions,    \* entity id -> [foto_depan, attachments]: the submissions
                    \* of the form as the platform holds them
    photo_log,      \* the PUT and POST requests sent, with run and answer
    ppc,            \* where main is
    pidx,           \* position of the for loop in the entries
    prun,           \* which run of the script this is
    pdry,           \* args.dry_run of this run
    accepting,      \* the platform accepts every request from now on
    run_good,       \* the platform accepted every request since this run began
    \* ---- approve_submissions.main on its data (SpecApprove)
    review_states,  \* instanceId -> reviewState: the submissions of the form
    include_edited, \* args.include_edited
    approve_limit,  \* args.limit
    apc,            \* where main is
    fetched_subs,   \* the submissions as get_submissions returned them
    to_process,     \* the submissions main is going to approve
    aidx,           \* position of the for loop in to_process
    review_writes   \* the calls of set_review_state, in order, with answers

nameVars == <<name, nm_op, nm_once, nm_twice>>

storeVars == <<entities, locations, edits>>

syncVars == <<pc, pg_data, idx, base_version, outcome, sent, status, srun, sruns>>

recVars == <<rpc, odk_by_label, pg_locations, loc_idx, result, calls, run, dirty, runs>>

resolveVars == <<backbone, row, resolver, sel, emitted>>

dryVars == <<script, dry_run, spc, requests, items, dataset_exists>>

faskesVars ==
    <<faskes_entities, faskes_data, fpc, entity_list, fidx, entity_detail,
      fetched_data, updates>>

jembatanVars ==
    <<jembatan_entities, features, import_limit, jpc, entities_to_import, jidx,
      jrun, success_count, last_run>>

photoVars ==
    <<mapping, photo_limit, progress, submissions, photo_log, ppc, pidx, prun,
      pdry, accepting, run_good>>

approveVars ==
    <<review_states, include_edited, approve_limit, apc, fetched_subs,
      to_process, aidx, review_writes>>

scriptVars == <<faskesVars, jembatanVars, photoVars, approveVars>>

\* the scripts other than update_faskes_kecamatan_desa, for its actions
notFaskes == <<jembatanVars, photoVars, approveVars>>

\* the scripts other than import_jembatan_entities, for its actions
notJembatan == <<faskesVars, photoVars, approveVars>>

\* the scripts other than update_odk_photos, for its actions
notPhotos == <<faskesVars, jembatanVars, approveVars>>

\* the scripts other than approve_submissions, for its actions
notApprove == <<faskesVars, jembatanVars, photoVars>>

vars == <<nameVars, storeVars, odk_entities, syncVars, recVars, resolveVars, dryVars, scriptVars>>

-----------------------------------------------------------------------------
(* Bounds *)

\* longest raw name the normalizer is run on
MaxLen == 5

\* changes other actors make to the entities during one run
MaxEdits == 1

\* runs of sync_entity_uuids.py, and of an import script, in a row
MaxRuns == 2

\* runs of update_odk_entities.py in a row
MaxSyncRuns == 2

\* most records a loop goes through
MaxItems == 2

-----------------------------------------------------------------------------
(* Characters *)

\* str.isspace: the whitespace of the inputs
Whitespace == {" "}

\* the punctuation of the inputs: neither \w nor \s
Punct == {"."}

LowerLetters == <<"a", "b", "c", "d", "e", "f", "g", "h", "i", "j", "k", "l", "m", "n", "o", "p", "q", "r", "s", "t", "u", "v", "w", "x", "y", "z">>

UpperLetters == <<"A", "B", "C", "D", "E", "F", "G", "H", "I", "J", "K", "L", "M", "N", "O", "P", "Q", "R", "S", "T", "U", "V", "W", "X", "Y", "Z">>

\* the characters raw names are made of
Chars == {"d", "s", "j", "t", "o", "e", "D"} \cup Whitespace \cup Punct

\* str.lower on one character
LowerChar(c) ==
    IF \E i \in 1..26 : UpperLetters[i] = c
    THEN LowerLetters[CHOOSE i \in 1..26 : UpperLetters[i] = c]
    ELSE c

\* str.upper on one character
UpperChar(c) ==
    IF \E i \in 1..26 : LowerLetters[i] = c
    THEN UpperLetters[CHOOSE i \in 1..26 : LowerLetters[i] = c]
    ELSE c

Lower(s) == [i \in DOMAIN s |-> LowerChar(s[i])]

Upper(s) == [i \in DOMAIN s |-> UpperChar(s[i])]

RECURSIVE LStrip(_)
LStrip(s) ==
    IF s = <<>> THEN s
    ELSE IF Head(s) \in Whitespace THEN LStrip(Tail(s)) ELSE s

RECURSIVE RStrip(_)
RStrip(s) ==
    IF s = <<>> THEN s
    ELSE IF s[Len(s)] \in Whitespace THEN RStrip(SubSeq(s, 1, Len(s) - 1)) ELSE s

\* str.strip
Strip(s) == RStrip(LStrip(s))

StartsWith(s, p) == Len(s) >= Len(p) /\ SubSeq(s, 1, Len(p)) = p

\* the alternatives of the prefix pattern, an optional dot written out
Prefixes == { <<"d","e","s","a">>,
              <<"g","a","m","p","o","n","g">>,
              <<"k","e","l","u","r","a","h","a","n">>,
              <<"k","p">>, <<"k","p",".">>,
              <<"d","s">>, <<"d","s",".">> }

\* p followed by at least one whitespace character starts s
PrefixMatches(s, p) ==
    StartsWith(s, p) /\ Len(s) > Len(p) /\ s[Len(p) + 1] \in Whitespace

\* re.sub(r'^(desa|gampong|kelurahan|kp\.?|ds\.?)\s+', '', name): one match,
\* anchored at the start; \s+ takes the whole whitespace run
StripPrefix(s) ==
    IF \E p \in Prefixes : PrefixMatches(s, p)
    THEN LET p == CHOOSE q \in Prefixes : PrefixMatches(s, q)
         IN  LStrip(SubSeq(s, Len(p) + 1, Len(s)))
    ELSE s

\* re.sub(r'\s+', ' ', name)
RECURSIVE CollapseSpaces(_)
CollapseSpaces(s) ==
    IF s = <<>> THEN s
    ELSE IF Head(s) \in Whitespace
         THEN <<" ">> \o CollapseSpaces(LStrip(s))
         ELSE <<Head(s)>> \o CollapseSpaces(Tail(s))

\* re.sub(r'[^\w\s]', '', name)
RemovePunct(s) == SelectSeq(s, LAMBDA c : c \notin Punct)

normalize_name(s) ==
    IF s = <<>> THEN <<>>
    ELSE RemovePunct(CollapseSpaces(StripPrefix(Strip(Lower(s)))))

\* str.replace(old, new): leftmost non-overlapping occurrences
RECURSIVE Replace(_, _, _)
Replace(s, old, new) ==
    IF s = <<>> THEN s
    ELSE IF StartsWith(s, old)
         THEN new \o Replace(SubSeq(s, Len(old) + 1, Len(s)), old, new)
         ELSE <<Head(s)>> \o Replace(Tail(s), old, new)

normalize_for_fuzzy(s) ==
    IF s = <<>> THEN <<>>
    ELSE LET n1 == normalize_name(s)
             n2 == Replace(n1, <<" ">>, <<>>)
             n3 == Replace(n2, <<"o","e">>, <<"u">>)
             n4 == Replace(n3, <<"d","j">>, <<"j">>)
         IN  Replace(n4, <<"t","j">>, <<"c">>)


-----------------------------------------------------------------------------
(* The entity platform and the relational store *)

\* the uuids of the dataset's entities, in the order the list request gives
EntityOrder == <<"A1", "A2">>

EntityIds == {EntityOrder[i] : i \in DOMAIN EntityOrder}

LocIds == {"L1", "L2"}

\* raw_data->>'_entity_id' IS NULL
NULL == "NULL"

\* the properties of the dataset that the model follows, of the columns
\* get_pg_data_via_docker selects
PropKeys == {"jumlah_kk", "kk_anak"}

\* an entity's label is never empty on the platform
Labels == {"Posko A", "Posko B"}

\* locations.nama; "" stands for an empty or NULL name
Names == {"", "Posko A"}

\* property values on the platform, "" for an empty or absent property
EntityValues == {"", "12"}

\* column values in the store, "" for NULL (clean_data turns None into '')
LocValues == {"", "20"}

\* the property maps the entities start with: nothing filled, one property
\* filled, both filled (up to exchanging the two properties)
EntityDataMaps ==
    {d \in [PropKeys -> EntityValues] : d["kk_anak"] /= "" => d["jumlah_kk"] /= ""}

\* the column values the locations start with, likewise
LocDataMaps ==
    {d \in [PropKeys -> LocValues] : d["jumlah_kk"] /= "" => d["kk_anak"] /= ""}

EntityStates ==
    [label : Labels, version : {1}, data : EntityDataMaps]

LocStates ==
    [nama : Names, entity_id : EntityIds \cup {NULL}, deleted : {FALSE},
     data : LocDataMaps]

\* the store and the platform outside any run of the names model
StoreIdle ==
    /\ entities = [e \in EntityIds |->
                     [label |-> "Posko A", version |-> 1,
                      data |-> [k \in PropKeys |-> ""]]]
    /\ locations = [l \in LocIds |->
                     [nama |-> "", entity_id |-> NULL, deleted |-> FALSE,
                      data |-> [k \in PropKeys |-> ""]]]
    /\ edits = 0

\* the normalizer and the resolvers in the specifications that do not run them
NamesIdle ==
    /\ name = <<>>
    /\ nm_op = "none"
    /\ nm_once = <<>>
    /\ nm_twice = <<>>

ResolveIdle ==
    /\ backbone = <<>>
    /\ row = <<>>
    /\ resolver = "none"
    /\ sel = <<>>
    /\ emitted = <<>>

\* no script with a --dry-run flag runs
DryIdle ==
    /\ script = "none"
    /\ dry_run = FALSE
    /\ spc = "start"
    /\ requests = <<>>
    /\ items = 0
    /\ dataset_exists = FALSE

\* update_faskes_kecamatan_desa.main on its data does not run
FaskesIdle ==
    /\ faskes_entities = <<>>
    /\ faskes_data = <<>>
    /\ fpc = "start"
    /\ entity_list = <<>>
    /\ fidx = 0
    /\ entity_detail = <<>>
    /\ fetched_data = <<>>
    /\ updates = <<>>

\* import_jembatan_entities.main on its data does not run
JembatanIdle ==
    /\ jembatan_entities = <<>>
    /\ features = <<>>
    /\ import_limit = 0
    /\ jpc = "start"
    /\ entities_to_import = <<>>
    /\ jidx = 0
    /\ jrun = 1
    /\ success_count = 0
    /\ last_run = "none"

\* update_odk_photos.main on its data does not run
PhotosIdle ==
    /\ mapping = <<>>
    /\ photo_limit = 0
    /\ progress = <<>>
    /\ submissions = <<>>
    /\ photo_log = <<>>
    /\ ppc = "start"
    /\ pidx = 0
    /\ prun = 1
    /\ pdry = FALSE
    /\ accepting = FALSE
    /\ run_good = FALSE

\* approve_submissions.main on its data does not run
ApproveIdle ==
    /\ review_states = <<>>
    /\ include_edited = FALSE
    /\ approve_limit = 0
    /\ apc = "start"
    /\ fetched_subs = <<>>
    /\ to_process = <<>>
    /\ aidx = 0
    /\ review_writes = <<>>

\* none of the scripts that are followed on their data runs
ScriptsIdle ==
    /\ FaskesIdle
    /\ JembatanIdle
    /\ PhotosIdle
    /\ ApproveIdle

\* sync_entity_uuids.main before its first request, and in the
\* specifications that never run it
RecIdle ==
    /\ rpc = "start"
    /\ odk_by_label = <<>>
    /\ pg_locations = <<>>
    /\ loc_idx = 0
    /\ result = [l \in LocIds |-> "pending"]
    /\ calls = <<>>
    /\ run = 1
    /\ dirty = FALSE
    /\ runs = <<>>

InitStore ==
    /\ entities \in [EntityIds -> EntityStates]
    /\ locations \in [LocIds -> LocStates]
    /\ edits = 0

\* PATCH .../entities/{uuid}?baseVersion=v on the platform: rejected with 409
\* unless v is the entity's current version; otherwise the label is replaced,
\* the properties named in data are set, the others kept, and the version
\* goes up by one
PlatformPatch(ent, label, data, v) ==
    IF v /= ent.version
    THEN [code |-> 409, entity |-> ent]
    ELSE [code |-> 200,
          entity |-> [label |-> label,
                      version |-> ent.version + 1,
                      data |-> [k \in DOMAIN ent.data |->
                                  IF k \in DOMAIN data THEN data[k]
                                  ELSE ent.data[k]]]]

\* another actor (a field submission, an operator) changes one property of
\* an entity: the platform stores it under the next version
EditProperty(e) ==
    /\ edits < MaxEdits
    /\ edits' = edits + 1
    /\ \E k \in PropKeys, v \in EntityValues :
          /\ v /= entities[e].data[k]
          /\ entities' = [entities EXCEPT ![e].data[k] = v, ![e].version = @ + 1]

\* another actor renames an entity
EditLabel(e) ==
    /\ edits < MaxEdits
    /\ edits' = edits + 1
    /\ \E lb \in Labels :
          /\ lb /= entities[e].label
          /\ entities' = [entities EXCEPT ![e].label = lb, ![e].version = @ + 1]

-----------------------------------------------------------------------------
(* update_odk_entities.py: push the store's values to the entities *)

\* main before its first request, and in the specifications that never run it
SyncIdle ==
    /\ pc = "start"
    /\ odk_entities = <<>>
    /\ pg_data = <<>>
    /\ idx = 0
    /\ base_version = 0
    /\ outcome = [e \in EntityIds |-> "pending"]
    /\ sent = [e \in EntityIds |-> <<>>]
    /\ status = [e \in EntityIds |-> <<>>]
    /\ srun = 1
    /\ sruns = <<>>

\* an entity's property map: the properties the model follows, and
\* nama_posko, which the form that creates an entity also uses as its label
EntityData(e) ==
    [k \in PropKeys \cup {"nama_posko"} |->
        IF k = "nama_posko" THEN entities[e].label ELSE entities[e].data[k]]

\* one element of the entity list: uuid, label, data and version as fetched
ListEntry(e) ==
    [uuid |-> e, label |-> entities[e].label, data |-> EntityData(e),
     version |-> entities[e].version]

\* the rows the query returns: WHERE deleted_at IS NULL AND
\* raw_data->>'_entity_id' IS NOT NULL
PgRows ==
    {l \in LocIds : ~locations[l].deleted /\ locations[l].entity_id /= NULL}

\* clean_data of one row: the selected columns as strings
LocData(l) ==
    [k \in PropKeys \cup {"nama_posko"} |->
        IF k = "nama_posko" THEN locations[l].nama ELSE locations[l].data[k]]

\* data[entity_id] = clean_data, row by row: of several rows with one
\* entity_id the last one stays, and the query fixes no order
PgDataChoices ==
    LET ids == {locations[l].entity_id : l \in PgRows}
    IN  {[e \in ids |-> LocData(f[e])] :
            f \in {g \in [ids -> PgRows] :
                     \A e \in ids : locations[g[e]].entity_id = e}}

\* a following statement of the loop body, or the end of the loop
Continue ==
    /\ idx' = idx + 1
    /\ pc' = IF idx + 1 > Len(odk_entities) THEN "done" ELSE "loop"

\* the entity the loop is at
Current == odk_entities[idx]

\* a mutant of NeedsUpdate: any difference between the store's value and the
\* entity's counts, not only a gap on the entity
NeedsUpdateOnDifference(entity, loc_data) ==
    \/ \E k \in DOMAIN loc_data :
          (IF k \in DOMAIN entity.data THEN entity.data[k] ELSE "") /= loc_data[k]
    \/ entity.label /= loc_data["nama_posko"]

\* a mutant of NeedsUpdate: the label is not compared
NeedsUpdateFieldsOnly(entity, loc_data) ==
    \E k \in DOMAIN loc_data :
       /\ (IF k \in DOMAIN entity.data THEN entity.data[k] ELSE "") = ""
       /\ loc_data[k] /= ""

\* lines 266-276: some property is empty on the entity and not in the store,
\* or the label differs
NeedsUpdate(entity, loc_data) ==
    \/ \E k \in DOMAIN loc_data :
          /\ (IF k \in DOMAIN entity.data THEN entity.data[k] ELSE "") = ""
          /\ loc_data[k] /= ""
    \/ entity.label /= loc_data["nama_posko"]

\* lines 215-231: the session and the entity list; a failure of either
\* ends the program
FetchEntities ==
    /\ pc = "start"
    /\ \/ /\ odk_entities' = [i \in DOMAIN EntityOrder |-> ListEntry(EntityOrder[i])]
          /\ pc' = "fetch_pg"
       \/ /\ pc' = "exit"
          /\ UNCHANGED odk_entities
    /\ UNCHANGED <<pg_data, idx, base_version, outcome, sent, status>>
    /\ UNCHANGED <<srun, sruns, nameVars, storeVars, recVars, resolveVars, dryVars, scriptVars>>

\* lines 233-247: the store's rows; a failing psql gives {} and the run goes on
FetchPgData ==
    /\ pc = "fetch_pg"
    /\ \/ pg_data' \in PgDataChoices
       \/ pg_data' = <<>>
    /\ idx' = 1
    /\ pc' = "loop"
    /\ UNCHANGED <<odk_entities, base_version, outcome, sent, status>>
    /\ UNCHANGED <<srun, sruns, nameVars, storeVars, recVars, resolveVars, dryVars, scriptVars>>

\* lines 249-280: the loop body up to the decision
CheckEntity ==
    /\ pc = "loop"
    /\ LET e == Current.uuid IN
       IF e \notin DOMAIN pg_data
       THEN /\ outcome' = [outcome EXCEPT ![e] = "no_pg_data"]
            /\ Continue
       ELSE IF pg_data[e]["nama_posko"] = ""
       THEN /\ outcome' = [outcome EXCEPT ![e] = "no_pg_data"]
            /\ Continue
       ELSE IF ~NeedsUpdate(Current, pg_data[e])
       THEN /\ outcome' = [outcome EXCEPT ![e] = "skipped"]
            /\ Continue
       ELSE /\ pc' = "get_version"
            /\ UNCHANGED <<outcome, idx>>
    /\ UNCHANGED <<odk_entities, pg_data, base_version, sent, status>>
    /\ UNCHANGED <<srun, sruns, nameVars, storeVars, recVars, resolveVars, dryVars, scriptVars>>

\* get_entity_version, lines 47-54, called at line 283: the current version
\* on 200, 1 on any other answer; a request that raises ends main
GetVersion ==
    /\ pc = "get_version"
    /\ LET e == Current.uuid IN
       /\ sent' = [sent EXCEPT ![e] = Append(@, "GET")]
       /\ \/ /\ base_version' = entities[e].version
             /\ pc' = "patch"
          \/ /\ base_version' = 1
             /\ pc' = "patch"
          \/ /\ pc' = "crashed"
             /\ UNCHANGED base_version
    /\ UNCHANGED <<odk_entities, pg_data, idx, outcome, status>>
    /\ UNCHANGED <<srun, sruns, nameVars, storeVars, recVars, resolveVars, dryVars, scriptVars>>

\* the data main submits for an entity: loc_data as it is (line 286)
Payload(entity, loc_data) == loc_data

\* update_entity, lines 56-76, called at line 286, and lines 288-293: the
\* PATCH is accepted, rejected for its version, rejected otherwise, or raises
PatchEntity ==
    /\ pc = "patch"
    /\ LET e == Current.uuid
           loc_data == pg_data[e]
           reply == PlatformPatch(entities[e], loc_data["nama_posko"],
                                  Payload(Current, loc_data), base_version)
       IN
       /\ sent' = [sent EXCEPT ![e] = Append(@, "PATCH")]
       /\ \/ /\ reply.code = 200
             /\ entities' = [entities EXCEPT ![e] = reply.entity]
             /\ status' = [status EXCEPT ![e] = Append(@, 200)]
             /\ outcome' = [outcome EXCEPT ![e] = "updated"]
             /\ Continue
          \/ /\ reply.code = 409
             /\ status' = [status EXCEPT ![e] = Append(@, 409)]
             /\ outcome' = [outcome EXCEPT ![e] = "error"]
             /\ Continue
             /\ UNCHANGED entities
          \/ /\ status' = [status EXCEPT ![e] = Append(@, 500)]
             /\ outcome' = [outcome EXCEPT ![e] = "error"]
             /\ Continue
             /\ UNCHANGED entities
          \/ /\ pc' = "crashed"
             /\ UNCHANGED <<entities, status, outcome, idx>>
    /\ UNCHANGED <<odk_entities, pg_data, base_version, locations, edits>>
    /\ UNCHANGED <<srun, sruns, nameVars, recVars, resolveVars, dryVars, scriptVars>>

\* another actor changes an entity between the run's requests
SyncEnvironment(e) ==
    /\ pc \in {"loop", "get_version", "patch"}
    /\ EditProperty(e) \/ EditLabel(e)
    /\ UNCHANGED <<locations, odk_entities, nameVars, syncVars, recVars, resolveVars, dryVars, scriptVars>>

\* the process is terminated in the middle of the batch
Terminate ==
    /\ pc \in {"loop", "get_version", "patch"}
    /\ pc' = "killed"
    /\ UNCHANGED <<odk_entities, pg_data, idx, base_version, outcome, sent, status>>
    /\ UNCHANGED <<srun, sruns, nameVars, storeVars, recVars, resolveVars, dryVars, scriptVars>>

\* the script is started again from the beginning after a run that ended,
\* raised or was terminated
SyncRunAgain ==
    /\ pc \in {"done", "crashed", "killed"}
    /\ srun < MaxSyncRuns
    /\ srun' = srun + 1
    /\ sruns' = Append(sruns, [ended |-> pc, listed |-> odk_entities,
                               fetched |-> pg_data,
                               outcome |-> outcome, sent |-> sent])
    /\ pc' = "start"
    /\ odk_entities' = <<>>
    /\ pg_data' = <<>>
    /\ idx' = 0
    /\ base_version' = 0
    /\ outcome' = [e \in EntityIds |-> "pending"]
    /\ sent' = [e \in EntityIds |-> <<>>]
    /\ status' = [e \in EntityIds |-> <<>>]
    /\ UNCHANGED <<nameVars, storeVars, recVars, resolveVars, dryVars, scriptVars>>

InitSync ==
    /\ InitStore
    /\ SyncIdle
    /\ RecIdle
    /\ ScriptsIdle
    /\ NamesIdle
    /\ ResolveIdle
    /\ DryIdle

NextSync ==
    \/ FetchEntities
    \/ FetchPgData
    \/ CheckEntity
    \/ GetVersion
    \/ PatchEntity
    \/ \E e \in EntityIds : SyncEnvironment(e)

SpecSync == InitSync /\ [][NextSync]_vars

\* the states the runs in a row start from: the store's columns in every
\* combination
InitSyncRuns ==
    /\ entities \in [EntityIds -> EntityStates]
    /\ locations \in [LocIds ->
          [nama : Names, entity_id : EntityIds \cup {NULL}, deleted : {FALSE},
           data : [PropKeys -> LocValues]]]
    /\ edits = 0
    /\ SyncIdle
    /\ RecIdle
    /\ ScriptsIdle
    /\ NamesIdle
    /\ ResolveIdle
    /\ DryIdle

\* runs of the script in a row with no other actor
NextSyncRuns ==
    \/ FetchEntities
    \/ FetchPgData
    \/ CheckEntity
    \/ GetVersion
    \/ PatchEntity
    \/ Terminate
    \/ SyncRunAgain

SpecSyncRuns == InitSyncRuns /\ [][NextSyncRuns]_vars

-----------------------------------------------------------------------------
(* Properties of the sync *)

\* the PATCH requests sent for e
Patches(e) == SelectSeq(sent[e], LAMBDA r : r = "PATCH")

\* main has a snapshot of both sides
Fetched == pc \in {"loop", "get_version", "patch", "done", "crashed"}

\* the run is over: the loop ended or an exception left main
RunEnded == pc \in {"done", "crashed"}

\* C1: a sync step on an entity never changes a property whose value on the
\* entity is non-empty, whatever the store holds for it.
NonEmptyNeverOverwritten ==
    [][\A e \in EntityIds, k \in PropKeys :
          (sent'[e] /= sent[e] /\ entities[e].data[k] /= "")
              => entities'[e].data[k] = entities[e].data[k]]_vars

\* the label matches and no property is empty on the entity and non-empty in
\* the store, for the i-th fetched entity
NothingToDo(i) ==
    LET ent == odk_entities[i] IN
    /\ ent.uuid \in DOMAIN pg_data
    /\ ent.label = pg_data[ent.uuid]["nama_posko"]
    /\ \A k \in PropKeys : ~(ent.data[k] = "" /\ pg_data[ent.uuid][k] /= "")

\* C2: when the label matches and nothing is missing on the entity, the
\* entity is counted as skipped, no request is sent for it (no version
\* fetch, no PATCH), and the step leaves the entity as it is.
NoChangeNoRequest ==
    /\ [](Fetched =>
            \A i \in DOMAIN odk_entities :
               NothingToDo(i) =>
                  /\ sent[odk_entities[i].uuid] = <<>>
                  /\ i < idx => outcome[odk_entities[i].uuid] = "skipped")
    /\ [][\A e \in EntityIds :
            (outcome[e] = "pending" /\ outcome'[e] = "skipped")
                => entities'[e] = entities[e]]_vars

\* C2 witness: an entity whose value differs from the store's non-empty
\* value was skipped without a request.
SkippedWithDifferentValue ==
    /\ Fetched
    /\ \E i \in DOMAIN odk_entities :
          /\ i < idx
          /\ NothingToDo(i)
          /\ outcome[odk_entities[i].uuid] = "skipped"
          /\ odk_entities[i].data["jumlah_kk"] = "12"
          /\ pg_data[odk_entities[i].uuid]["jumlah_kk"] = "20"

\* C5: a write that the platform accepts is based on the entity as the run
\* read it: the entity's version is still the one of the fetched list, so a
\* change made since is rejected as a conflict and not overwritten.
NoWriteOnStaleRead ==
    [][\A e \in EntityIds :
          (Len(status'[e]) > Len(status[e]) /\ status'[e][Len(status'[e])] = 200)
              => odk_entities[idx].version = entities[e].version]_vars

\* C6: a write rejected for its version is retried once with the re-fetched
\* version: the entity then has two write attempts, and ends updated when
\* the retry is accepted and failed when it conflicts again; no entity has
\* more than two attempts.
ConflictRetriedOnce ==
    \A e \in EntityIds :
       /\ Len(Patches(e)) <= 2
       /\ (outcome[e] /= "pending" /\ status[e] /= <<>> /\ status[e][1] = 409)
             => /\ Len(status[e]) = 2
                /\ status[e][2] = 200 => outcome[e] = "updated"
                /\ status[e][2] = 409 => outcome[e] = "error"

\* C9: a failing round trip becomes the record's outcome and the loop goes
\* on: when the run is over every fetched entity has an outcome.
BatchNeverAborted ==
    RunEnded => \A i \in DOMAIN odk_entities :
                   outcome[odk_entities[i].uuid] /= "pending"

\* C16: when an update is needed, the property map submitted equals the
\* entity's current map with each empty property replaced by the store's
\* non-empty value for it, and nothing else changed.
SubmitsMergedMap ==
    pc = "patch" =>
        LET loc_data == pg_data[Current.uuid] IN
        \A k \in PropKeys :
            Payload(Current, loc_data)[k] =
                IF Current.data[k] = "" /\ loc_data[k] /= ""
                THEN loc_data[k]
                ELSE Current.data[k]

\* the run before this one read the store, went through the whole list, and
\* every update it needed was accepted
PreviousRunClean ==
    /\ sruns /= <<>>
    /\ LET prev == sruns[Len(sruns)] IN
       /\ prev.ended = "done"
       /\ prev.fetched = <<>> => PgRows = {}
       /\ \A e \in EntityIds : prev.outcome[e] \in {"updated", "skipped", "no_pg_data"}

\* C17: after a run in which every needed update was accepted, the next run,
\* with no change to the store or the platform in between, sends no PATCH.
SecondSyncRunWritesNothing ==
    PreviousRunClean => \A e \in EntityIds : Patches(e) = <<>>

\* the label and the properties of an entity, its version left aside
Content(ent) == [label |-> ent.label, data |-> [k \in PropKeys |-> ent.data[k]]]

\* what a run without a failure leaves of an entity it listed as ent when
\* the store's row for it is loc_data
AfterSync(ent, loc_data) ==
    IF loc_data["nama_posko"] = "" \/ ~NeedsUpdate(ent, loc_data)
    THEN Content(ent)
    ELSE Content(PlatformPatch([label |-> ent.label, version |-> ent.version,
                                data |-> Content(ent).data],
                               loc_data["nama_posko"], Payload(ent, loc_data),
                               ent.version).entity)

\* what an uninterrupted run without a failure can leave of the entity
\* listed as ent
UninterruptedResults(ent) ==
    LET rws == {l \in PgRows : locations[l].entity_id = ent.uuid}
    IN IF rws = {} THEN {Content(ent)}
       ELSE {AfterSync(ent, LocData(l)) : l \in rws}

\* a run was terminated in its loop, and the run started after it read the
\* store and went through the whole list without a failure
ResumedAndDone ==
    /\ Len(sruns) = 1
    /\ sruns[1].ended = "killed"
    /\ pc = "done"
    /\ pg_data = <<>> => PgRows = {}
    /\ \A e \in EntityIds : outcome[e] \in {"updated", "skipped", "no_pg_data"}

\* C18: when a batch is cut off after a prefix of its writes and run again
\* from the start, with no other actor, the labels and properties of all
\* entities end as an uninterrupted run leaves them; versions may differ.
ResumeEqualsUninterrupted ==
    ResumedAndDone =>
        \A i \in DOMAIN sruns[1].listed :
            LET ent == sruns[1].listed[i]
            IN Content(entities[ent.uuid]) \in UninterruptedResults(ent)

\* the store has a row for the i-th fetched entity, and the label computed
\* from it (line 259) is not the entity's label
LabelDiffers(i) ==
    LET ent == odk_entities[i] IN
    /\ ent.uuid \in DOMAIN pg_data
    /\ pg_data[ent.uuid]["nama_posko"] /= ent.label

\* the platform accepts a PATCH for e in this step
Accepted(e) ==
    /\ Len(status'[e]) > Len(status[e])
    /\ status'[e][Len(status'[e])] = 200

\* C24: if the label computed from the location record differs from the
\* entity's stored label, sync issues an update for that entity even when no
\* property is missing on the entity; after an accepted update the entity's
\* label equals the computed label.
LabelDifferenceUpdates ==
    /\ [](Fetched =>
            \A i \in DOMAIN odk_entities :
               (i < idx /\ LabelDiffers(i)) => Patches(odk_entities[i].uuid) /= <<>>)
    /\ [][\A e \in EntityIds :
            Accepted(e) => entities'[e].label = pg_data[e]["nama_posko"]]_vars

\* C24 as amended: if the label computed from the location record is not
\* empty and differs from the entity's stored label, sync issues an update
\* for that entity even when no property is missing on the entity; after an
\* accepted update the entity's label equals the computed label.
NamedLabelDifferenceUpdates ==
    /\ [](Fetched =>
            \A i \in DOMAIN odk_entities :
               (i < idx /\ LabelDiffers(i)
                  /\ pg_data[odk_entities[i].uuid]["nama_posko"] /= "")
                 => Patches(odk_entities[i].uuid) /= <<>>)
    /\ [][\A e \in EntityIds :
            Accepted(e) => entities'[e].label = pg_data[e]["nama_posko"]]_vars

\* C24 witness: an entity on which no property was missing was listed with
\* a label other than the store's name, and after an accepted PATCH it has
\* the store's name as its label.
RenamedWithNothingMissing ==
    /\ Fetched
    /\ \E i \in DOMAIN odk_entities :
          LET ent == odk_entities[i] IN
          /\ i < idx
          /\ LabelDiffers(i)
          /\ \A k \in PropKeys : ent.data[k] /= ""
          /\ outcome[ent.uuid] = "updated"
          /\ entities[ent.uuid].label = pg_data[ent.uuid]["nama_posko"]
          /\ entities[ent.uuid].label /= ent.label

\* one run over entities of which some have been changed before: their
\* versions are 1 or 2; no other actor during the run
InitSyncVersions ==
    /\ entities \in [EntityIds ->
          [label : Labels, version : {1, 2}, data : EntityDataMaps]]
    /\ locations \in [LocIds -> LocStates]
    /\ edits = 0
    /\ SyncIdle
    /\ RecIdle
    /\ ScriptsIdle
    /\ NamesIdle
    /\ ResolveIdle
    /\ DryIdle

NextSyncVersions ==
    \/ FetchEntities
    \/ FetchPgData
    \/ CheckEntity
    \/ GetVersion
    \/ PatchEntity

SpecSyncVersions == InitSyncVersions /\ [][NextSyncVersions]_vars

\* C25: every PATCH carries as baseVersion the version read from the
\* platform for that entity, and none is sent with a substituted version when
\* the read fails: with no other actor the version read is the version the
\* entity has when the PATCH is sent.
TokenIsVersionRead ==
    [][\A e \in EntityIds :
          Len(Patches(e))' > Len(Patches(e)) => base_version = entities[e].version]_vars

-----------------------------------------------------------------------------
(* sync_entity_uuids.py: make the store's _entity_id follow the labels *)

\* a mutant of BuildByLabel: the first entity with a label keeps it
BuildByLabelFirst(list) ==
    LET labelled == {i \in DOMAIN list : list[i].label /= ""}
        first(lb) == CHOOSE i \in labelled :
                        /\ list[i].label = lb
                        /\ \A j \in labelled : list[j].label = lb => i <= j
    IN  [lb \in {list[i].label : i \in labelled} |-> list[first(lb)].uuid]

\* lines 122-127: label -> uuid over the fetched list, a later entity
\* replacing an earlier one with the same label; empty labels are left out
BuildByLabel(list) ==
    LET labelled == {i \in DOMAIN list : list[i].label /= ""}
        last(lb) == CHOOSE i \in labelled :
                       /\ list[i].label = lb
                       /\ \A j \in labelled : list[j].label = lb => j <= i
    IN  [lb \in {list[i].label : i \in labelled} |-> list[last(lb)].uuid]

\* get_pg_locations, lines 66-81: id, nama and _entity_id of the rows WHERE
\* deleted_at IS NULL
LiveLocations == {l \in LocIds : ~locations[l].deleted}

LocationRow(l) ==
    [id |-> l, nama |-> locations[l].nama,
     current_entity_id |-> locations[l].entity_id]

\* the rows in any order: the query has no ORDER BY
LocationLists ==
    {[i \in DOMAIN f |-> LocationRow(f[i])] :
        f \in {g \in [1..Cardinality(LiveLocations) -> LiveLocations] :
                 \A i, j \in DOMAIN g : i /= j => g[i] /= g[j]}}

\* a mutant of UpdatePgEntityId: the WHERE clause matches no row
UpdateNoRow(locs, location_id, new_entity_id) == locs

\* update_pg_entity_id, lines 83-97: UPDATE locations SET raw_data =
\* raw_data || {"_entity_id": new} WHERE id = location_id
UpdatePgEntityId(locs, location_id, new_entity_id) ==
    [locs EXCEPT ![location_id].entity_id = new_entity_id]

\* a mutant of ApplyPairing: the pairing is written nowhere
ApplyPairingNowhere(ents, locs, location_id, odk_uuid) ==
    [entities |-> ents, locations |-> locs]

\* a mutant of ApplyPairing: the pairing is also written to the platform, as
\* a new version of the entity
ApplyPairingToPlatform(ents, locs, location_id, odk_uuid) ==
    [entities  |-> [ents EXCEPT ![odk_uuid].version = @ + 1],
     locations |-> UpdatePgEntityId(locs, location_id, odk_uuid)]

\* lines 155-161: what the update branch of main writes: one call of
\* update_pg_entity_id, and no request to the platform
ApplyPairing(ents, locs, location_id, odk_uuid) ==
    [entities  |-> ents,
     locations |-> UpdatePgEntityId(locs, location_id, odk_uuid)]

\* a mutant of AlreadyMatches: a record without an identifier is taken to match
AlreadyMatchesOrNull(current_id, odk_uuid) ==
    current_id = odk_uuid \/ current_id = NULL

\* line 153
AlreadyMatches(current_id, odk_uuid) == current_id = odk_uuid

\* the next row, or the summary
RecContinue ==
    /\ loc_idx' = loc_idx + 1
    /\ rpc' = IF loc_idx + 1 > Len(pg_locations) THEN "done" ELSE "loop"

\* lines 104-129: the session, the entity list and the lookup by label; a
\* failure of a request ends the program
RecFetchEntities ==
    /\ rpc = "start"
    /\ \/ /\ odk_entities' = [i \in DOMAIN EntityOrder |-> ListEntry(EntityOrder[i])]
          /\ odk_by_label' = BuildByLabel(odk_entities')
          /\ rpc' = "fetch_pg"
       \/ /\ rpc' = "exit"
          /\ UNCHANGED <<odk_entities, odk_by_label>>
    /\ UNCHANGED <<pg_locations, loc_idx, result, calls, run, dirty, runs>>
    /\ UNCHANGED <<nameVars, storeVars, syncVars, resolveVars, dryVars, scriptVars>>

\* lines 131-144: the rows of the store; a failure ends the program
RecFetchLocations ==
    /\ rpc = "fetch_pg"
    /\ \/ /\ pg_locations' \in LocationLists
          /\ loc_idx' = 1
          /\ rpc' = IF Len(pg_locations') = 0 THEN "done" ELSE "loop"
       \/ /\ rpc' = "exit"
          /\ UNCHANGED <<pg_locations, loc_idx>>
    /\ UNCHANGED <<odk_entities, odk_by_label, result, calls, run, dirty, runs>>
    /\ UNCHANGED <<nameVars, storeVars, syncVars, resolveVars, dryVars, scriptVars>>

\* lines 146-165: one row of the loop
RecMatch ==
    /\ rpc = "loop"
    /\ LET loc == pg_locations[loc_idx]
           nama == loc.nama
           current_id == loc.current_entity_id
       IN
       IF nama \in DOMAIN odk_by_label
       THEN LET odk_uuid == odk_by_label[nama] IN
            IF AlreadyMatches(current_id, odk_uuid)
            THEN /\ result' = [result EXCEPT ![loc.id] = "already_match"]
                 /\ UNCHANGED <<entities, locations, calls, dirty>>
            ELSE /\ calls' = Append(calls, [id |-> loc.id, new_entity_id |-> odk_uuid])
                 /\ \/ LET written == ApplyPairing(entities, locations, loc.id, odk_uuid)
                       IN /\ locations' = written.locations
                          /\ entities' = written.entities
                          /\ result' = [result EXCEPT ![loc.id] = "updated"]
                          /\ UNCHANGED dirty
                    \/ /\ result' = [result EXCEPT ![loc.id] = "update_failed"]
                       /\ dirty' = TRUE
                       /\ UNCHANGED <<entities, locations>>
       ELSE /\ result' = [result EXCEPT ![loc.id] = "no_match"]
            /\ UNCHANGED <<entities, locations, calls, dirty>>
    /\ RecContinue
    /\ UNCHANGED <<odk_entities, odk_by_label, pg_locations, run, runs>>
    /\ UNCHANGED <<nameVars, edits, syncVars, resolveVars, dryVars, scriptVars>>

\* the script is started again after a run
RecRunAgain ==
    /\ rpc = "done"
    /\ run < MaxRuns
    /\ run' = run + 1
    /\ runs' = Append(runs, [calls |-> calls, clean |-> ~dirty])
    /\ rpc' = "start"
    /\ odk_entities' = <<>>
    /\ odk_by_label' = <<>>
    /\ pg_locations' = <<>>
    /\ loc_idx' = 0
    /\ result' = [l \in LocIds |-> "pending"]
    /\ calls' = <<>>
    /\ dirty' = FALSE
    /\ UNCHANGED <<nameVars, storeVars, syncVars, resolveVars, dryVars, scriptVars>>

\* another actor renames an entity while the script runs or between runs
RecEditLabel(e) ==
    /\ rpc \in {"fetch_pg", "loop", "done"}
    /\ EditLabel(e)
    /\ dirty' = TRUE
    /\ UNCHANGED <<locations, odk_entities, nameVars, syncVars, resolveVars, dryVars, scriptVars>>
    /\ UNCHANGED <<rpc, odk_by_label, pg_locations, loc_idx, result, calls, run, runs>>

\* another actor (the service that stores submissions) sets a location's
\* _entity_id, or soft-deletes the location
RecEditLocation(l) ==
    /\ rpc \in {"fetch_pg", "loop", "done"}
    /\ edits < MaxEdits
    /\ edits' = edits + 1
    /\ \/ \E u \in EntityIds \cup {NULL} :
            /\ u /= locations[l].entity_id
            /\ locations' = [locations EXCEPT ![l].entity_id = u]
       \/ /\ ~locations[l].deleted
          /\ locations' = [locations EXCEPT ![l].deleted = TRUE]
    /\ dirty' = TRUE
    /\ UNCHANGED <<entities, odk_entities, nameVars, syncVars, resolveVars, dryVars, scriptVars>>
    /\ UNCHANGED <<rpc, odk_by_label, pg_locations, loc_idx, result, calls, run, runs>>

\* the states the reconciler starts from: names, labels, identifiers and
\* deletion flags; the property values play no part
InitReconcile ==
    /\ entities \in [EntityIds ->
          [label : Labels, version : {1}, data : {[k \in PropKeys |-> ""]}]]
    /\ locations \in [LocIds ->
          [nama : Names \cup Labels, entity_id : EntityIds \cup {NULL},
           deleted : BOOLEAN, data : {[k \in PropKeys |-> ""]}]]
    /\ edits = 0
    /\ SyncIdle
    /\ RecIdle
    /\ ScriptsIdle
    /\ NamesIdle
    /\ ResolveIdle
    /\ DryIdle

NextReconcile ==
    \/ RecFetchEntities
    \/ RecFetchLocations
    \/ RecMatch
    \/ RecRunAgain
    \/ \E e \in EntityIds : RecEditLabel(e)
    \/ \E l \in LocIds : RecEditLocation(l)

SpecReconcile == InitReconcile /\ [][NextReconcile]_vars

\* the script is started again after every run, whether the run went
\* through its list or ended at a failing request; only the run before the
\* current one is remembered
RecRunForever ==
    /\ rpc \in {"done", "exit"}
    /\ runs' = <<[calls |-> calls, clean |-> ~dirty]>>
    /\ rpc' = "start"
    /\ odk_entities' = <<>>
    /\ odk_by_label' = <<>>
    /\ pg_locations' = <<>>
    /\ loc_idx' = 0
    /\ result' = [l \in LocIds |-> "pending"]
    /\ calls' = <<>>
    /\ dirty' = FALSE
    /\ UNCHANGED <<run, nameVars, storeVars, syncVars, resolveVars, dryVars, scriptVars>>

NextReconcileLive ==
    \/ RecFetchEntities
    \/ RecFetchLocations
    \/ RecMatch
    \/ RecRunForever
    \/ \E e \in EntityIds : RecEditLabel(e)
    \/ \E l \in LocIds : RecEditLocation(l)

\* the runs are repeated: the script always takes its next step and is
\* always started again
SpecReconcileLive ==
    /\ InitReconcile
    /\ [][NextReconcileLive]_vars
    /\ WF_vars(RecFetchEntities)
    /\ WF_vars(RecFetchLocations)
    /\ WF_vars(RecMatch)
    /\ WF_vars(RecRunForever)

-----------------------------------------------------------------------------
(* Properties of the reconciler *)

\* the calls of update_pg_entity_id for location l in this run
CallsFor(l) == SelectSeq(calls, LAMBDA c : c.id = l)

\* the previous run applied every update it emitted and nothing else has
\* changed since that run began
Settled == runs /= <<>> /\ runs[Len(runs)].clean /\ ~dirty

\* C3: after a run whose updates were all applied, and with no other change
\* to locations or entities, the next run emits no update.
SecondRunEmitsNothing == Settled => calls = <<>>

\* C3 witness: a second run ended without an update after a first run that
\* emitted one and applied it.
SecondRunDoneAfterUpdates ==
    /\ Settled
    /\ rpc = "done"
    /\ runs[Len(runs)].calls /= <<>>
    /\ \E l \in LocIds : result[l] = "already_match"

\* some fetched entity carries the name as its label
IsLabel(nama) == \E i \in DOMAIN odk_entities : odk_entities[i].label = nama

\* C10: of the rows a run has gone through, one whose name is no entity's
\* label is reported unmatched and not written; one whose name is a label
\* and whose stored identifier is the mapped one is not written; one whose
\* name is a label and whose stored identifier differs (NULL included) gets
\* exactly one update, to the mapped identifier, and holds it once the
\* update is applied.
ReconcilePartition ==
    rpc \in {"loop", "done"} =>
      \A i \in DOMAIN pg_locations :
        LET loc == pg_locations[i] IN
        i < loc_idx =>
          /\ ~IsLabel(loc.nama) =>
                result[loc.id] = "no_match" /\ CallsFor(loc.id) = <<>>
          /\ (IsLabel(loc.nama) /\ loc.current_entity_id = odk_by_label[loc.nama]) =>
                result[loc.id] = "already_match" /\ CallsFor(loc.id) = <<>>
          /\ (IsLabel(loc.nama) /\ loc.current_entity_id /= odk_by_label[loc.nama]) =>
                /\ CallsFor(loc.id) =
                      <<[id |-> loc.id, new_entity_id |-> odk_by_label[loc.nama]]>>
                /\ result[loc.id] \in {"updated", "update_failed"}
                /\ (result[loc.id] = "updated" /\ ~dirty) =>
                      locations[loc.id].entity_id = odk_by_label[loc.nama]

\* C10 witness: one run has reported a row unmatched, found one matching
\* and updated one that had no identifier.
AllThreeBranchesTaken ==
    /\ rpc = "done"
    /\ \E i, j \in DOMAIN pg_locations :
          /\ result[pg_locations[i].id] = "updated"
          /\ pg_locations[i].current_entity_id = NULL
          /\ locations[pg_locations[i].id].entity_id = odk_by_label[pg_locations[i].nama]
          /\ result[pg_locations[j].id] \in {"no_match", "already_match"}

\* no request of the step fails: the run is not ended by a failing fetch and
\* no update is refused
NoFailureStep ==
    /\ rpc' /= "exit"
    /\ \A l \in LocIds : result'[l] = "update_failed" => result[l] = "update_failed"

\* every live location whose name is an entity's label stores the
\* identifier the label maps to
Aligned ==
    LET by_label == BuildByLabel([i \in DOMAIN EntityOrder |-> ListEntry(EntityOrder[i])])
    IN \A l \in LiveLocations :
          locations[l].nama \in DOMAIN by_label
              => locations[l].entity_id = by_label[locations[l].nama]

\* C19: when the runs are repeated, other actors stop changing the stores
\* and from some point on every request succeeds, then from some run on no
\* run emits an update, and every live location whose name is a label
\* stores the identifier mapped to that label.
ReconcileConverges ==
    (<>[][NoFailureStep]_vars) => <>[](calls = <<>> /\ Aligned)

\* C19 witness: after the other actors' last change a run emitted updates,
\* and the run after it has gone through its list without emitting any,
\* with the stores aligned.
ConvergedAfterChange ==
    /\ edits = MaxEdits
    /\ rpc = "done"
    /\ calls = <<>>
    /\ pg_locations /= <<>>
    /\ runs /= <<>>
    /\ runs[Len(runs)].calls /= <<>>
    /\ Aligned

\* a step of the script: every one of them moves rpc or loc_idx
ReconcileStep == <<rpc, loc_idx>>' /= <<rpc, loc_idx>>

\* C11: a reconcile run writes only to the store: no step of the script
\* changes the set of entities or an entity's identifier, label, version or
\* properties, and no step of any kind removes an entity.
ReconcileLeavesPlatform ==
    /\ [][ReconcileStep => entities' = entities]_vars
    /\ [][DOMAIN entities' = DOMAIN entities]_vars

\* C11 witness: a run ended having written an identifier to the store with
\* the entities as they were listed.
PairingWrittenToStoreOnly ==
    /\ rpc = "done"
    /\ edits = 0
    /\ \E i \in DOMAIN pg_locations :
          /\ result[pg_locations[i].id] = "updated"
          /\ locations[pg_locations[i].id].entity_id /= pg_locations[i].current_entity_id
    /\ \A i \in DOMAIN odk_entities : ListEntry(odk_entities[i].uuid) = odk_entities[i]

\* C12: a location whose soft-delete flag is set takes no part in a pass:
\* no step of the loop emits an update for it, writes its identifier or
\* reports it, also when the flag was set after the run fetched its rows.
DeletedTakesNoPart ==
    [][\A l \in LocIds :
          (rpc = "loop" /\ ReconcileStep /\ locations[l].deleted)
              => /\ locations'[l] = locations[l]
                 /\ result'[l] = result[l]
                 /\ CallsFor(l)' = CallsFor(l)]_vars

\* entity.get("label", ""), line 125: the labels of the list's elements,
\* "" for an element without one
ListedLabels == Labels \cup {""}

\* one run of the reconciler over entities of which some have no label, with
\* no other actor
InitReconcileLabels ==
    /\ entities \in [EntityIds ->
          [label : ListedLabels, version : {1}, data : {[k \in PropKeys |-> ""]}]]
    /\ locations \in [LocIds ->
          [nama : Names \cup Labels, entity_id : EntityIds \cup {NULL},
           deleted : BOOLEAN, data : {[k \in PropKeys |-> ""]}]]
    /\ edits = 0
    /\ SyncIdle
    /\ RecIdle
    /\ ScriptsIdle
    /\ NamesIdle
    /\ ResolveIdle
    /\ DryIdle

NextReconcileLabels ==
    \/ RecFetchEntities
    \/ RecFetchLocations
    \/ RecMatch

SpecReconcileLabels == InitReconcileLabels /\ [][NextReconcileLabels]_vars

\* the uuid of the last element of the fetched list that carries the label
LastWithLabel(lb) ==
    LET i == CHOOSE k \in DOMAIN odk_entities :
                /\ odk_entities[k].label = lb
                /\ \A j \in DOMAIN odk_entities :
                      odk_entities[j].label = lb => j <= k
    IN odk_entities[i].uuid

\* C21: the label map holds, for every non-empty label of the fetched list,
\* the identifier of the last entity carrying it, and nothing for the empty
\* label; a row the run has gone through whose name is such a label is found
\* to hold that identifier already or gets one update to it, and holds it
\* once the update is applied.
LastLabelWins ==
    rpc \in {"fetch_pg", "loop", "done"} =>
      /\ "" \notin DOMAIN odk_by_label
      /\ \A i \in DOMAIN odk_entities :
            odk_entities[i].label /= "" =>
               /\ odk_entities[i].label \in DOMAIN odk_by_label
               /\ odk_by_label[odk_entities[i].label] =
                      LastWithLabel(odk_entities[i].label)
      /\ \A i \in DOMAIN pg_locations :
            LET loc == pg_locations[i] IN
            (i < loc_idx /\ loc.nama /= "" /\ IsLabel(loc.nama)) =>
               LET uuid == LastWithLabel(loc.nama) IN
               \/ /\ loc.current_entity_id = uuid
                  /\ result[loc.id] = "already_match"
                  /\ CallsFor(loc.id) = <<>>
               \/ /\ loc.current_entity_id /= uuid
                  /\ CallsFor(loc.id) = <<[id |-> loc.id, new_entity_id |-> uuid]>>
                  /\ result[loc.id] \in {"updated", "update_failed"}
                  /\ result[loc.id] = "updated" => locations[loc.id].entity_id = uuid

\* C21 witness: two entities carry one label, and a run has moved a location
\* with that name from the first of them to the last.
PairedWithLastOfTwo ==
    /\ rpc = "done"
    /\ Len(odk_entities) = 2
    /\ odk_entities[1].label = odk_entities[2].label
    /\ odk_entities[1].label /= ""
    /\ \E i \in DOMAIN pg_locations :
          /\ pg_locations[i].nama = odk_entities[1].label
          /\ pg_locations[i].current_entity_id = odk_entities[1].uuid
          /\ result[pg_locations[i].id] = "updated"
          /\ locations[pg_locations[i].id].entity_id = odk_entities[2].uuid

-----------------------------------------------------------------------------
(* The normalizer run on one raw name, and on its own result *)

\* the raw names of a given length
RawNames(n) == [1..n -> Chars]

InitNames ==
    /\ \E n \in 0..MaxLen : name \in RawNames(n)
    /\ nm_op = "none"
    /\ nm_once = <<>>
    /\ nm_twice = <<>>
    /\ StoreIdle
    /\ SyncIdle
    /\ RecIdle
    /\ ScriptsIdle
    /\ ResolveIdle
    /\ DryIdle

ApplyNormalize ==
    /\ nm_op = "none"
    /\ nm_op' = "normalize"
    /\ nm_once' = normalize_name(name)
    /\ nm_twice' = normalize_name(normalize_name(name))
    /\ UNCHANGED <<name, storeVars, odk_entities, syncVars, recVars, resolveVars, dryVars, scriptVars>>

ApplyFuzzy ==
    /\ nm_op = "none"
    /\ nm_op' = "fuzzy"
    /\ nm_once' = normalize_for_fuzzy(name)
    /\ nm_twice' = normalize_for_fuzzy(normalize_for_fuzzy(name))
    /\ UNCHANGED <<name, storeVars, odk_entities, syncVars, recVars, resolveVars, dryVars, scriptVars>>

NextNames == ApplyNormalize \/ ApplyFuzzy

SpecNames == InitNames /\ [][NextNames]_vars

\* C7: normalize is idempotent: normalize(normalize(x)) = normalize(x) for
\* every raw name x.
NormalizeIdempotent == nm_op = "normalize" => nm_twice = nm_once

\* C8: fuzzy_key is idempotent: fuzzy_key(fuzzy_key(x)) = fuzzy_key(x) for
\* every raw name x.
FuzzyIdempotent == nm_op = "fuzzy" => nm_twice = nm_once

-----------------------------------------------------------------------------
(* The code resolvers: update_faskes_kecamatan_desa.py and dump_posko_odk.py *)

\* the provinces of provinsi.csv
ProvinsiRows ==
    << [nama |-> <<"A", "C", "E", "H">>, kode |-> "11"],
         [nama |-> <<"S", "U", "M", "A", "T", "E", "R", "A", " ", "U", "T", "A", "R", "A">>, kode |-> "12"] >>

\* kota_kab.csv as the repository's data writes the regencies
KotaKabRowsPrefixed ==
    << [nama |-> <<"K", "A", "B", ".", " ", "A", "C", "E", "H", " ", "B", "E", "S", "A", "R">>, kode |-> "11.06", id_provinsi |-> "11"],
         [nama |-> <<"K", "A", "B", ".", " ", "P", "I", "D", "I", "E">>, kode |-> "11.07", id_provinsi |-> "11"] >>

\* kota_kab.csv with the regencies written without the "KAB." prefix
KotaKabRowsPlain ==
    << [nama |-> <<"A", "C", "E", "H", " ", "B", "E", "S", "A", "R">>, kode |-> "11.06", id_provinsi |-> "11"],
         [nama |-> <<"P", "I", "D", "I", "E">>, kode |-> "11.07", id_provinsi |-> "11"] >>

\* kecamatan.csv: one subdistrict name under two regencies
KecamatanRows ==
    << [nama |-> <<"K", "U", "T", "A", " ", "B", "A", "R", "O">>, kode |-> "11.06.15", id_kota_kab |-> "11.06"],
         [nama |-> <<"K", "U", "T", "A", " ", "B", "A", "R", "O">>, kode |-> "11.07.09", id_kota_kab |-> "11.07"] >>

\* desa.csv: one village name under two subdistricts
DesaRows ==
    << [nama |-> <<"L", "A", "M", "B", "A", "R", "O">>, kode |-> "11.06.15.2001", id_kec |-> "11.06.15"],
         [nama |-> <<"L", "A", "M", "B", "A", "R", "O">>, kode |-> "11.07.09.2001", id_kec |-> "11.07.09"] >>

Backbones ==
    { [provinsi |-> ProvinsiRows, kota_kab |-> kk,
       kecamatan |-> KecamatanRows, desa |-> DesaRows] :
      kk \in {KotaKabRowsPrefixed, KotaKabRowsPlain} }

\* the raw names of the input records, "" for an empty cell
RawProvinsi ==
    { <<>>,
      <<"A", "c", "e", "h">>,
      <<"A", "c", "e", "h", " ">>,
      <<"R", "i", "a", "u">>,
      <<"S", "u", "m", "a", "t", "e", "r", "a", " ", "U", "t", "a", "r", "a">> }

RawKabupaten ==
    { <<>>,
      <<"A", "c", "e", "h", " ", "B", "e", "s", "a", "r">>,
      <<"K", "a", "b", ".", " ", "A", "c", "e", "h", " ", "B", "e", "s", "a", "r">>,
      <<"P", "i", "d", "i", "e">>,
      <<"A", "c", "e", "h", " ", "B", "e", "s", "a", "r", " ", "T", "e", "n", "g", "a", "h">> }

RawKecamatan ==
    { <<>>,
      <<"k", "u", "t", "a", " ", "b", "a", "r", "o">>,
      <<"K", "u", "t", "a", " ", "A", "l", "a", "m">> }

RawDesa ==
    { <<>>,
      <<"L", "a", "m", "b", "a", "r", "o">>,
      <<"L", "a", "m", "r", "e", "h">> }

InputRows ==
    [provinsi : RawProvinsi, kabupaten : RawKabupaten,
     kecamatan : RawKecamatan, desa : RawDesa]

\* a mutant of DictOf: a key keeps the value of the first pair that has it
DictOfFirst(pairs) ==
    LET first(k) == CHOOSE i \in DOMAIN pairs :
                       /\ pairs[i][1] = k
                       /\ \A j \in DOMAIN pairs : pairs[j][1] = k => i <= j
    IN [k \in {pairs[i][1] : i \in DOMAIN pairs} |-> pairs[first(k)][2]]

\* a dict filled pair by pair: a later pair replaces an earlier one with its key
DictOf(pairs) ==
    LET last(k) == CHOOSE i \in DOMAIN pairs :
                       /\ pairs[i][1] = k
                       /\ \A j \in DOMAIN pairs : pairs[j][1] = k => j <= i
    IN [k \in {pairs[i][1] : i \in DOMAIN pairs} |-> pairs[last(k)][2]]

\* dict.get(key, default)
Get(d, k, default) == IF k \in DOMAIN d THEN d[k] ELSE default

load_location_lookups(bb) ==
    LET keep(r) == r.nama # <<>> /\ r.kode # ""
        prov == SelectSeq(bb.provinsi, keep)
        kab  == SelectSeq(bb.kota_kab, keep)
        kec  == SelectSeq(bb.kecamatan, keep)
        des  == SelectSeq(bb.desa, keep)
    IN [provinsi |-> DictOf([i \in DOMAIN prov |->
                        <<Upper(prov[i].nama), prov[i].kode>>]),
        kota_kab |-> DictOf([i \in DOMAIN kab |->
                        <<Upper(kab[i].nama),
                          [kode |-> kab[i].kode, id_provinsi |-> kab[i].id_provinsi]>>]),
        kecamatan |-> DictOf([i \in DOMAIN kec |->
                        <<<<kec[i].id_kota_kab, Upper(kec[i].nama)>>,
                          [kode |-> kec[i].kode, id_kota_kab |-> kec[i].id_kota_kab]>>]),
        desa |-> DictOf([i \in DOMAIN des |->
                        <<<<des[i].id_kec, Upper(des[i].nama)>>,
                          [kode |-> des[i].kode, id_kec |-> des[i].id_kec]>>])]

normalize_kab_name(nama) ==
    LET n == Strip(Upper(nama))
    IN IF ~StartsWith(n, <<"K","A","B",".">>) /\ ~StartsWith(n, <<"K","O","T","A">>)
       THEN <<"K","A","B","."," ">> \o n
       ELSE n

\* the codes load_faskes_data finds for one row of the CSV, '' where it finds none
load_faskes_data(lookups, r) ==
    LET provinsi  == Strip(r.provinsi)
        kabupaten == Strip(r.kabupaten)
        kecamatan == Strip(r.kecamatan)
        desa      == Strip(r.desa)
        sel_provinsi ==
            IF provinsi # <<>> THEN Get(lookups.provinsi, Upper(provinsi), "") ELSE ""
        kab_norm == normalize_kab_name(kabupaten)
        sel_kota_kab ==
            IF kabupaten # <<>> /\ kab_norm \in DOMAIN lookups.kota_kab
            THEN lookups.kota_kab[kab_norm].kode
            ELSE ""
        kec_key == <<sel_kota_kab, Upper(kecamatan)>>
        sel_kecamatan ==
            IF kecamatan # <<>> /\ sel_kota_kab # "" /\ kec_key \in DOMAIN lookups.kecamatan
            THEN lookups.kecamatan[kec_key].kode
            ELSE ""
        desa_key == <<sel_kecamatan, Upper(desa)>>
        sel_desa ==
            IF desa # <<>> /\ sel_kecamatan # "" /\ desa_key \in DOMAIN lookups.desa
            THEN lookups.desa[desa_key].kode
            ELSE ""
    IN [provinsi |-> sel_provinsi, kota_kab |-> sel_kota_kab,
        kecamatan |-> sel_kecamatan, desa |-> sel_desa]

\* normalize_name of dump_posko_odk.py. An empty cell is NaN and gives None,
\* written <<>> here: the callers only test the result for truth, where None
\* and '' count the same.
posko_normalize_name(nm) == IF nm = <<>> THEN <<>> ELSE Strip(Upper(nm))

load_wilayah_lookups(bb) ==
    [provinsi |-> DictOf([i \in DOMAIN bb.provinsi |->
                     <<posko_normalize_name(bb.provinsi[i].nama), bb.provinsi[i].kode>>]),
     kota_kab |-> DictOf([i \in DOMAIN bb.kota_kab |->
                     <<posko_normalize_name(bb.kota_kab[i].nama), bb.kota_kab[i].kode>>]),
     kecamatan |-> DictOf([i \in DOMAIN bb.kecamatan |->
                     <<<<bb.kecamatan[i].id_kota_kab,
                         posko_normalize_name(bb.kecamatan[i].nama)>>,
                       bb.kecamatan[i].kode>>]),
     desa |-> DictOf([i \in DOMAIN bb.desa |->
                     <<<<bb.desa[i].id_kec, posko_normalize_name(bb.desa[i].nama)>>,
                       bb.desa[i].kode>>]),
     desa_df |-> bb.desa]

\* the codes lookup_location finds for one row of the sheet, None where it
\* finds none
lookup_location(r, lookups) ==
    LET prov_name == posko_normalize_name(r.provinsi)
        provinsi ==
            IF prov_name # <<>> THEN Get(lookups.provinsi, prov_name, NULL) ELSE NULL
        kota_name == posko_normalize_name(r.kabupaten)
        kota_kab ==
            IF kota_name # <<>> THEN Get(lookups.kota_kab, kota_name, NULL) ELSE NULL
        kec_name == posko_normalize_name(r.kecamatan)
        kecamatan ==
            IF kec_name # <<>> /\ kota_kab # NULL
            THEN Get(lookups.kecamatan, <<kota_kab, kec_name>>, NULL)
            ELSE NULL
        desa_name == posko_normalize_name(r.desa)
        matches ==
            {i \in DOMAIN lookups.desa_df :
                /\ lookups.desa_df[i].id_kec = kecamatan
                /\ Upper(lookups.desa_df[i].nama) = desa_name}
        desa ==
            IF desa_name # <<>> /\ kecamatan # NULL /\ matches # {}
            THEN lookups.desa_df[CHOOSE i \in matches : \A j \in matches : i <= j].kode
            ELSE NULL
    IN [provinsi |-> provinsi, kota_kab |-> kota_kab,
        kecamatan |-> kecamatan, desa |-> desa]

\* lines 238-246: of the codes found, the entry of a faskes keeps id_desa
faskes_entry(codes) == [id_desa |-> codes.desa]

\* x or y in Python, for codes: y when x is None or ''
Or(x, y) == IF x = NULL \/ x = "" THEN y ELSE x

\* lines 259-262 of transform_row: the codes of the submission
transform_row(codes) ==
    [sel_provinsi  |-> Or(codes.provinsi, "11"),
     sel_kota_kab  |-> Or(codes.kota_kab, ""),
     sel_kecamatan |-> Or(codes.kecamatan, ""),
     sel_desa      |-> Or(codes.desa, "")]

\* one row of the faskes CSV goes through load_faskes_data
ResolveFaskes ==
    /\ resolver = "none"
    /\ resolver' = "faskes"
    /\ sel' = load_faskes_data(load_location_lookups(backbone), row)
    /\ emitted' = faskes_entry(sel')
    /\ UNCHANGED <<backbone, row, nameVars, storeVars, odk_entities, syncVars, recVars, dryVars, scriptVars>>

\* one row of the posko sheet goes through lookup_location
ResolvePosko ==
    /\ resolver = "none"
    /\ resolver' = "posko"
    /\ sel' = lookup_location(row, load_wilayah_lookups(backbone))
    /\ emitted' = transform_row(sel')
    /\ UNCHANGED <<backbone, row, nameVars, storeVars, odk_entities, syncVars, recVars, dryVars, scriptVars>>

InitResolve ==
    /\ backbone \in Backbones
    /\ row \in InputRows
    /\ resolver = "none"
    /\ sel = <<>>
    /\ emitted = <<>>
    /\ StoreIdle
    /\ SyncIdle
    /\ RecIdle
    /\ ScriptsIdle
    /\ NamesIdle
    /\ DryIdle

NextResolve == ResolveFaskes \/ ResolvePosko

SpecResolve == InitResolve /\ [][NextResolve]_vars

\* a code the resolver found: neither '' nor None
Found(code) == code # "" /\ code # NULL

\* C4: the result of resolution has a code at a level (regency, subdistrict,
\* village) only if it has the codes of all the levels above it; when the
\* regency name has no match, the regency and the lower codes are null.
AncestorsResolved ==
    resolver # "none" =>
        /\ Found(sel.kota_kab) => Found(sel.provinsi)
        /\ Found(sel.kecamatan) => Found(sel.kota_kab) /\ Found(sel.provinsi)
        /\ Found(sel.desa) =>
               Found(sel.kecamatan) /\ Found(sel.kota_kab) /\ Found(sel.provinsi)

\* the rows of one backbone table that carry a code
RowsWithCode(rws, code) == {i \in DOMAIN rws : rws[i].kode = code}

\* C13: every code the resolution returns below province level belongs to a
\* backbone row whose parent code is the code resolved at the level above:
\* the regency under the resolved province, the subdistrict under the
\* resolved regency, the village under the resolved subdistrict.
ParentsAgree ==
    resolver # "none" =>
        /\ Found(sel.kota_kab) =>
               \E i \in RowsWithCode(backbone.kota_kab, sel.kota_kab) :
                  backbone.kota_kab[i].id_provinsi = sel.provinsi
        /\ Found(sel.kecamatan) =>
               \E i \in RowsWithCode(backbone.kecamatan, sel.kecamatan) :
                  backbone.kecamatan[i].id_kota_kab = sel.kota_kab
        /\ Found(sel.desa) =>
               \E i \in RowsWithCode(backbone.desa, sel.desa) :
                  backbone.desa[i].id_kec = sel.kecamatan

\* C14: with province "ACEH" (11), regency "ACEH BESAR" (11.06 under 11) and
\* subdistrict "KUTA BARO" (11.06.15 under 11.06) in the backbone, the names
\* "Aceh", "Kab. Aceh Besar", "kuta baro" resolve to 11, 11.06 and 11.06.15.
ScenarioNamesResolve ==
    ( /\ resolver # "none"
      /\ backbone.kota_kab = KotaKabRowsPlain
      /\ row.provinsi = <<"A", "c", "e", "h">>
      /\ row.kabupaten = <<"K", "a", "b", ".", " ", "A", "c", "e", "h", " ", "B", "e", "s", "a", "r">>
      /\ row.kecamatan = <<"k", "u", "t", "a", " ", "b", "a", "r", "o">> )
    => /\ sel.provinsi = "11"
       /\ sel.kota_kab = "11.06"
       /\ sel.kecamatan = "11.06.15"

\* C15: when the raw name at a level is empty, the record is handed on with
\* no code at that level and at every level below it; no code is a default.
EmptyNameNoCode ==
    /\ resolver = "posko" =>
          /\ row.provinsi = <<>> =>
                /\ ~Found(emitted.sel_provinsi)
                /\ ~Found(emitted.sel_kota_kab)
                /\ ~Found(emitted.sel_kecamatan)
                /\ ~Found(emitted.sel_desa)
          /\ row.kabupaten = <<>> =>
                /\ ~Found(emitted.sel_kota_kab)
                /\ ~Found(emitted.sel_kecamatan)
                /\ ~Found(emitted.sel_desa)
          /\ row.kecamatan = <<>> =>
                ~Found(emitted.sel_kecamatan) /\ ~Found(emitted.sel_desa)
          /\ row.desa = <<>> => ~Found(emitted.sel_desa)
    /\ resolver = "faskes" =>
          ((\E lv \in DOMAIN row : row[lv] = <<>>) => ~Found(emitted.id_desa))

-----------------------------------------------------------------------------
(* lookup_kecamatan_from_desa.py, and the resolvers on a village table in   *)
(* which several rows have one key                                          *)

\* most rows of desa.csv
MaxRows == 2

\* rows of desa.csv: three spellings of one village under one subdistrict,
\* and the same name under another subdistrict
DesaSpellings ==
    { [nama |-> <<"L", "a", "m", " ", "B", "a", "r", "o">>, kode |-> "11.06.15.2001", id_kec |-> "11.06.15"],
      [nama |-> <<"L", "a", "m", "b", "a", "r", "o">>, kode |-> "11.06.15.2002", id_kec |-> "11.06.15"],
      [nama |-> <<"L", "A", "M", "B", "A", "R", "O">>, kode |-> "11.06.15.2003", id_kec |-> "11.06.15"],
      [nama |-> <<"L", "a", "m", "b", "a", "r", "o">>, kode |-> "11.07.09.2001", id_kec |-> "11.07.09"] }

\* desa.csv: up to MaxRows of the rows, in any order
DesaTables ==
    UNION { {t \in [1..n -> DesaSpellings] :
                \A i, j \in 1..n : i /= j => t[i] /= t[j]} : n \in 1..MaxRows }

\* the DESA cells of the faskes CSV
RawDesaCells ==
    { <<>>,
      <<"L", "a", "m", " ", "B", "a", "r", "o">>,
      <<"l", "a", "m", "b", "a", "r", "o">>,
      <<"L", "a", "m", "b", "a", " ", "r", "o">>,
      <<"D", "e", "s", "a", " ", "L", "a", "m", "b", "a", "r", "o", " ">>,
      <<"L", "a", "m", "r", "e", "h">> }

\* load_desa_lookup, lines 52-69: both tables are keyed by the name alone
load_desa_lookup(rws) ==
    LET kept == SelectSeq(rws, LAMBDA r : r.nama # <<>> /\ r.id_kec # "")
        info(r) == [id_kec |-> r.id_kec, nama |-> r.nama]
    IN [lookup |-> DictOf([i \in DOMAIN kept |->
                      <<normalize_name(kept[i].nama), info(kept[i])>>]),
        fuzzy_lookup |-> DictOf([i \in DOMAIN kept |->
                      <<normalize_for_fuzzy(kept[i].nama), info(kept[i])>>])]

\* load_kecamatan_lookup, lines 72-82: kode -> nama
load_kecamatan_lookup(rws) ==
    LET kept == SelectSeq(rws, LAMBDA r : r.kode # "" /\ r.nama # <<>>)
    IN DictOf([i \in DOMAIN kept |-> <<kept[i].kode, kept[i].nama>>])

\* a mutant of find_desa: the fuzzy table is asked first
find_desa_fuzzy_first(tables, desa) ==
    LET desa_fuzzy == normalize_for_fuzzy(desa)
        desa_norm == normalize_name(desa)
    IN IF desa_fuzzy \in DOMAIN tables.fuzzy_lookup
       THEN tables.fuzzy_lookup[desa_fuzzy]
       ELSE IF desa_norm \in DOMAIN tables.lookup
       THEN tables.lookup[desa_norm]
       ELSE <<>>

\* lines 125-132: the exact table, and the fuzzy table when it has no entry;
\* an entry is a non-empty dict and so always true, None is written <<>>
find_desa(tables, desa) ==
    LET desa_norm == normalize_name(desa)
        desa_fuzzy == normalize_for_fuzzy(desa)
    IN IF desa_norm \in DOMAIN tables.lookup
       THEN tables.lookup[desa_norm]
       ELSE IF desa_fuzzy \in DOMAIN tables.fuzzy_lookup
       THEN tables.fuzzy_lookup[desa_fuzzy]
       ELSE <<>>

\* lines 117-156: one row of the faskes CSV in the loop of main: the entry
\* found, which counter the row went to, and the row as it is written back
lookup_row(bb, r) ==
    LET desa == Strip(r.desa)
        desa_info == find_desa(load_desa_lookup(bb.desa), desa)
        kecamatan_lookup == load_kecamatan_lookup(bb.kecamatan)
    IN IF desa = <<>>
       THEN [info |-> <<>>, stat |-> "no_desa",
             DESA |-> r.desa, KECAMATAN |-> r.kecamatan]
       ELSE IF DOMAIN desa_info = {}
       THEN [info |-> <<>>, stat |-> "desa_not_found",
             DESA |-> r.desa, KECAMATAN |-> r.kecamatan]
       ELSE IF desa_info.id_kec \notin DOMAIN kecamatan_lookup
       THEN [info |-> desa_info, stat |-> "kec_not_found",
             DESA |-> desa_info.nama, KECAMATAN |-> r.kecamatan]
       ELSE [info |-> desa_info, stat |-> "found",
             DESA |-> desa_info.nama,
             KECAMATAN |-> kecamatan_lookup[desa_info.id_kec]]

\* one row of the faskes CSV goes through the loop of
\* lookup_kecamatan_from_desa.main
LookupDesa ==
    /\ resolver = "none"
    /\ resolver' = "lookup"
    /\ LET res == lookup_row(backbone, row) IN
       /\ sel' = res.info
       /\ emitted' = [stat |-> res.stat, DESA |-> res.DESA, KECAMATAN |-> res.KECAMATAN]
    /\ UNCHANGED <<backbone, row, nameVars, storeVars, odk_entities, syncVars, recVars, dryVars, scriptVars>>

\* a record of subdistrict Kuta Baro of Aceh Besar, over every village table
InitLookup ==
    /\ backbone \in { [provinsi |-> ProvinsiRows, kota_kab |-> KotaKabRowsPrefixed,
                       kecamatan |-> KecamatanRows, desa |-> t] : t \in DesaTables }
    /\ row \in [provinsi : {<<"A", "c", "e", "h">>},
                kabupaten : {<<"A", "c", "e", "h", " ", "B", "e", "s", "a", "r">>, <<"K", "a", "b", ".", " ", "A", "c", "e", "h", " ", "B", "e", "s", "a", "r">>},
                kecamatan : {<<"k", "u", "t", "a", " ", "b", "a", "r", "o">>},
                desa : RawDesaCells]
    /\ resolver = "none"
    /\ sel = <<>>
    /\ emitted = <<>>
    /\ StoreIdle
    /\ SyncIdle
    /\ RecIdle
    /\ ScriptsIdle
    /\ NamesIdle
    /\ DryIdle

NextLookup == LookupDesa \/ ResolveFaskes \/ ResolvePosko

SpecLookup == InitLookup /\ [][NextLookup]_vars

\* the rows of the village table that give the key the resolver looked up
\* and found: for the lookup script the rows with the cell's normalized name
\* or, when there is none, those with its fuzzy key; for the code resolvers
\* the rows of the resolved subdistrict with the cell's name
MatchingRows ==
    LET t == backbone.desa
        desa == Strip(row.desa)
        exact == {i \in DOMAIN t : normalize_name(t[i].nama) = normalize_name(desa)}
        fuzzy == {i \in DOMAIN t :
                     normalize_for_fuzzy(t[i].nama) = normalize_for_fuzzy(desa)}
    IN IF resolver = "lookup"
       THEN IF exact /= {} THEN exact ELSE fuzzy
       ELSE {i \in DOMAIN t : /\ t[i].id_kec = sel.kecamatan
                              /\ Upper(t[i].nama) = Upper(desa)}

\* several rows give the key, all under one parent, and the resolver found
\* the village
SeveralRowsOneKey ==
    /\ resolver /= "none"
    /\ IF resolver = "lookup" THEN DOMAIN sel /= {} ELSE Found(sel.desa)
    /\ Cardinality(MatchingRows) > 1
    /\ \A i, j \in MatchingRows : backbone.desa[i].id_kec = backbone.desa[j].id_kec

\* the resolver's result is row i of the village table, and nothing but the
\* result is reported
ResultIsRow(i) ==
    LET r == backbone.desa[i] IN
    IF resolver = "lookup"
    THEN /\ sel = [id_kec |-> r.id_kec, nama |-> r.nama]
         /\ emitted.stat = "found"
         /\ emitted.DESA = r.nama
    ELSE sel.desa = r.kode

FirstOf(rs) == CHOOSE i \in rs : \A j \in rs : i <= j

LastOf(rs) == CHOOSE i \in rs : \A j \in rs : j <= i

\* C22: when several backbone rows give the same lookup key under the same
\* parent, resolution returns the row that comes first in the backbone table,
\* and reports no ambiguity.
FirstRowWins == SeveralRowsOneKey => ResultIsRow(FirstOf(MatchingRows))

\* C22 as amended: when several backbone rows give the same lookup key under
\* the same parent, the resolvers that keep the table as a dict
\* (lookup_kecamatan_from_desa, update_faskes_kecamatan_desa) return the row
\* that comes last in the backbone table, the village lookup of
\* dump_posko_odk, which filters the table, returns the first, and no
\* ambiguity is reported.
LastRowWins ==
    SeveralRowsOneKey =>
        IF resolver = "posko"
        THEN ResultIsRow(FirstOf(MatchingRows))
        ELSE ResultIsRow(LastOf(MatchingRows))

\* C22 witness: the lookup script found a village through a key that two
\* rows of one subdistrict give, and returned the later row.
LaterRowReturned ==
    /\ resolver = "lookup"
    /\ SeveralRowsOneKey
    /\ sel.nama = backbone.desa[LastOf(MatchingRows)].nama
    /\ sel.nama /= backbone.desa[FirstOf(MatchingRows)].nama

\* C23: when the normalized name of the cell is a key of the exact table the
\* result is that table's entry, whatever the fuzzy table holds for the
\* cell's fuzzy key; the fuzzy table's entry is the result only when the
\* exact table has none; when neither table has the key the row is counted
\* as not found and written back as it was.
ExactBeforeFuzzy ==
    (resolver = "lookup" /\ Strip(row.desa) /= <<>>) =>
        LET tables == load_desa_lookup(backbone.desa)
            desa_norm == normalize_name(Strip(row.desa))
            desa_fuzzy == normalize_for_fuzzy(Strip(row.desa))
        IN /\ desa_norm \in DOMAIN tables.lookup =>
                 DOMAIN sel /= {} /\ sel = tables.lookup[desa_norm]
           /\ (desa_norm \notin DOMAIN tables.lookup
                 /\ desa_fuzzy \in DOMAIN tables.fuzzy_lookup) =>
                 DOMAIN sel /= {} /\ sel = tables.fuzzy_lookup[desa_fuzzy]
           /\ (desa_norm \notin DOMAIN tables.lookup
                 /\ desa_fuzzy \notin DOMAIN tables.fuzzy_lookup) =>
                 /\ DOMAIN sel = {}
                 /\ emitted = [stat |-> "desa_not_found", DESA |-> row.desa,
                               KECAMATAN |-> row.kecamatan]

\* C23 witness: the exact table had the cell's name, the fuzzy table held
\* another row for the cell's fuzzy key, and the exact table's row is the
\* result.
ExactHitFuzzyDiffers ==
    /\ resolver = "lookup"
    /\ DOMAIN sel /= {}
    /\ LET tables == load_desa_lookup(backbone.desa)
           desa_norm == normalize_name(Strip(row.desa))
           desa_fuzzy == normalize_for_fuzzy(Strip(row.desa))
       IN /\ desa_norm \in DOMAIN tables.lookup
          /\ desa_fuzzy \in DOMAIN tables.fuzzy_lookup
          /\ tables.fuzzy_lookup[desa_fuzzy] /= tables.lookup[desa_norm]
          /\ sel = tables.lookup[desa_norm]
          /\ normalize_name(sel.nama) = desa_norm

-----------------------------------------------------------------------------
(* update_faskes_kecamatan_desa.py: the loop of main on the entities' data *)

\* lines 344-348
fields_to_update ==
    {"nama_faskes", "jenis_faskes", "nama_kecamatan", "nama_desa",
     "nama_provinsi", "nama_kota_kab", "id_desa"}

\* the properties of the dataset: the seven fields and one that the script
\* does not set
FaskesProps == fields_to_update \cup {"alamat"}

FaskesLabels == {"Puskesmas Kuta Baro", "RSUD Meuraxa"}

\* the entries load_faskes_data can hold for a label (lines 238-246): the
\* name is the label, the subdistrict name and the village code are there
\* or empty, the other fields are empty
CsvInfos(label) ==
    {[f \in fields_to_update |->
         CASE f = "nama_faskes" -> label
           [] f = "nama_kecamatan" -> kec
           [] f = "id_desa" -> id
           [] OTHER -> ""] :
       kec \in {"", "Kuta Baro"}, id \in {"", "11.06.15.2001"}}

\* the CSV has the first label, or both
FaskesCsvs ==
    UNION { {d \in [ls -> UNION {CsvInfos(l) : l \in ls}] :
                \A l \in ls : d[l] \in CsvInfos(l)} :
            ls \in {{"Puskesmas Kuta Baro"}, FaskesLabels} }

\* the property maps of the entities: uploaded from the CSV under their
\* label, with or without a subdistrict, a village code and an address
FaskesDataMaps(label) ==
    {[f \in FaskesProps |->
         CASE f = "nama_faskes" -> label
           [] f = "nama_kecamatan" -> kec
           [] f = "id_desa" -> id
           [] f = "alamat" -> al
           [] OTHER -> ""] :
       kec \in {"", "Kuta Baro", "Kuta Alam"}, id \in {"", "11.06.15.2001"},
       al \in {"", "Jl. A"}}

\* one element of the entity list (lines 331-334): uuid, currentVersion with
\* the label, and data
FaskesListEntry(e) ==
    [uuid |-> e,
     currentVersion |-> [label |-> faskes_entities[e].label,
                         version |-> faskes_entities[e].version],
     data |-> faskes_entities[e].data]

\* the entity the loop is at
FaskesCurrent == entity_list[fidx]

\* lines 350-356: some field has a non-empty CSV value other than the
\* entity's value in the list
faskes_needs_update(csv_info, current_data) ==
    \E field \in fields_to_update :
       /\ csv_info[field] /= ""
       /\ csv_info[field] /= (IF field \in DOMAIN current_data
                              THEN current_data[field] ELSE "")

\* lines 367-372: a copy of current_data with every field set whose CSV
\* value is not empty
update_data(csv_info, current_data) ==
    [k \in DOMAIN current_data \cup {f \in fields_to_update : csv_info[f] /= ""} |->
        IF k \in fields_to_update /\ csv_info[k] /= ""
        THEN csv_info[k]
        ELSE current_data[k]]

\* the next entity, or the summary
FaskesContinue ==
    /\ fidx' = fidx + 1
    /\ fpc' = IF fidx + 1 > Len(entity_list) THEN "done" ELSE "loop"

\* lines 312-319: the entity list; a failing request ends the program
FaskesListEntities ==
    /\ fpc = "start"
    /\ \/ /\ entity_list' = [i \in DOMAIN EntityOrder |-> FaskesListEntry(EntityOrder[i])]
          /\ fidx' = 1
          /\ fpc' = "loop"
       \/ /\ fpc' = "exit"
          /\ UNCHANGED <<entity_list, fidx>>
    /\ UNCHANGED <<faskes_entities, faskes_data, entity_detail, fetched_data, updates>>
    /\ UNCHANGED <<nameVars, storeVars, odk_entities, syncVars, recVars, resolveVars, dryVars, notFaskes>>

\* lines 330-360: the loop body up to the decision
FaskesCheckEntity ==
    /\ fpc = "loop"
    /\ LET label == FaskesCurrent.currentVersion.label IN
       IF label \notin DOMAIN faskes_data
       THEN FaskesContinue
       ELSE IF ~faskes_needs_update(faskes_data[label], FaskesCurrent.data)
       THEN FaskesContinue
       ELSE fpc' = "get_entity" /\ UNCHANGED fidx
    /\ UNCHANGED <<faskes_entities, faskes_data, entity_list, entity_detail,
                   fetched_data, updates>>
    /\ UNCHANGED <<nameVars, storeVars, odk_entities, syncVars, recVars, resolveVars, dryVars, notFaskes>>

\* get_entity, lines 83-90, called at line 363: the entity on 200, {} on
\* any other answer (written <<>>); a request that raises ends main
FaskesGetEntity ==
    /\ fpc = "get_entity"
    /\ LET e == FaskesCurrent.uuid IN
       /\ fetched_data' = faskes_entities[e].data
       /\ \/ /\ entity_detail' =
                   [currentVersion |-> [version |-> faskes_entities[e].version],
                    data |-> faskes_entities[e].data]
             /\ fpc' = "update_entity"
          \/ /\ entity_detail' = <<>>
             /\ fpc' = "update_entity"
          \/ /\ fpc' = "crashed"
             /\ UNCHANGED entity_detail
    /\ UNCHANGED <<faskes_entities, faskes_data, entity_list, fidx, updates>>
    /\ UNCHANGED <<nameVars, storeVars, odk_entities, syncVars, recVars, resolveVars, dryVars, notFaskes>>

\* lines 364-385 and update_entity, lines 92-110: the version and the data
\* of the detail, 1 and {} when it is empty, the merged map, and the PATCH,
\* which is accepted, rejected for its version, rejected otherwise, or raises
FaskesPatchEntity ==
    /\ fpc = "update_entity"
    /\ LET e == FaskesCurrent.uuid
           label == FaskesCurrent.currentVersion.label
           base_ver == IF DOMAIN entity_detail = {} THEN 1
                       ELSE entity_detail.currentVersion.version
           current_data == IF DOMAIN entity_detail = {} THEN <<>>
                           ELSE entity_detail.data
           data == update_data(faskes_data[label], current_data)
           reply == PlatformPatch(faskes_entities[e], label, data, base_ver)
           call == [uuid |-> e, label |-> label, data |-> data,
                    base_version |-> base_ver, fresh |-> fetched_data]
       IN
       \/ /\ reply.code = 200
          /\ faskes_entities' = [faskes_entities EXCEPT ![e] = reply.entity]
          /\ updates' = Append(updates, [call |-> call, code |-> 200])
          /\ FaskesContinue
       \/ /\ reply.code = 409
          /\ updates' = Append(updates, [call |-> call, code |-> 409])
          /\ FaskesContinue
          /\ UNCHANGED faskes_entities
       \/ /\ updates' = Append(updates, [call |-> call, code |-> 500])
          /\ FaskesContinue
          /\ UNCHANGED faskes_entities
       \/ /\ updates' = Append(updates, [call |-> call, code |-> 0])
          /\ fpc' = "crashed"
          /\ UNCHANGED <<faskes_entities, fidx>>
    /\ UNCHANGED <<faskes_data, entity_list, entity_detail, fetched_data>>
    /\ UNCHANGED <<nameVars, storeVars, odk_entities, syncVars, recVars, resolveVars, dryVars, notFaskes>>

\* another actor sets the address of an entity while the loop runs: the
\* platform stores it under the next version
FaskesEdit(e) ==
    /\ fpc \in {"loop", "get_entity", "update_entity"}
    /\ edits < MaxEdits
    /\ edits' = edits + 1
    /\ \E v \in {"", "Jl. A", "Jl. B"} :
          /\ v /= faskes_entities[e].data["alamat"]
          /\ faskes_entities' = [faskes_entities EXCEPT ![e].data["alamat"] = v,
                                                         ![e].version = @ + 1]
    /\ UNCHANGED <<faskes_data, fpc, entity_list, fidx, entity_detail,
                   fetched_data, updates>>
    /\ UNCHANGED <<entities, locations, nameVars, odk_entities, syncVars, recVars,
                   resolveVars, dryVars, notFaskes>>

InitFaskes ==
    /\ faskes_entities \in
          [EntityIds -> UNION {[label : {l}, version : {1},
                                    data : FaskesDataMaps(l)] : l \in FaskesLabels}]
    /\ faskes_data \in FaskesCsvs
    /\ fpc = "start"
    /\ entity_list = <<>>
    /\ fidx = 0
    /\ entity_detail = <<>>
    /\ fetched_data = <<>>
    /\ updates = <<>>
    /\ StoreIdle
    /\ SyncIdle
    /\ RecIdle
    /\ NamesIdle
    /\ ResolveIdle
    /\ DryIdle
    /\ JembatanIdle
    /\ PhotosIdle
    /\ ApproveIdle

NextFaskes ==
    \/ FaskesListEntities
    \/ FaskesCheckEntity
    \/ FaskesGetEntity
    \/ FaskesPatchEntity
    \/ \E e \in EntityIds : FaskesEdit(e)

SpecFaskes == InitFaskes /\ [][NextFaskes]_vars

\* the calls of update_entity for e
UpdatesFor(e) == SelectSeq(updates, LAMBDA u : u.call.uuid = e)

\* C26: the property map submitted for an entity is the map the platform
\* held for it at the GET before the write, with each of the seven fields
\* whose CSV value is not empty set to that value and nothing else changed;
\* an entity whose label is not in the CSV, or whose seven fields in the
\* list already have the non-empty CSV values, gets no write.
SubmitsFetchedMapWithCsvFields ==
    /\ \A i \in DOMAIN updates :
          LET u == updates[i].call
              csv_info == faskes_data[u.label]
          IN /\ DOMAIN u.data = DOMAIN u.fresh
             /\ \A k \in DOMAIN u.fresh :
                   u.data[k] = IF k \in fields_to_update /\ csv_info[k] /= ""
                               THEN csv_info[k]
                               ELSE u.fresh[k]
    /\ \A j \in DOMAIN entity_list :
          LET ent == entity_list[j]
              label == ent.currentVersion.label
          IN (j < fidx /\ (label \notin DOMAIN faskes_data
                           \/ \A f \in fields_to_update :
                                 faskes_data[label][f] /= ""
                                    => ent.data[f] = faskes_data[label][f]))
                => UpdatesFor(ent.uuid) = <<>>

-----------------------------------------------------------------------------
(* import_jembatan_entities.py: what main creates in the dataset *)

\* props.get('nama', '') of the features
FeatureNames == {"Jembatan Krueng A", "Jembatan Krueng B"}

\* the features of the file: up to MaxItems names, in any order, the same
\* name more than once or not
FeatureLists == UNION {[1..n -> FeatureNames] : n \in 0..MaxItems}

\* POST .../datasets/{name}/entities on the platform: an entity with a new
\* uuid is stored whatever its label is
PlatformCreate(dataset, label) == Append(dataset, [label |-> label, imported |-> TRUE])

\* lines 231-238: the labels of the features, in order, without those in
\* existing_labels
to_import(feats, existing_labels) ==
    SelectSeq(feats, LAMBDA label : label \notin existing_labels)

\* lines 225-249: the existing entities ([] when the request fails), what
\* is left to import, the return when nothing is left, and the limit. The
\* run is one without --dry-run
ImportCheckExisting ==
    /\ jpc = "existing"
    /\ \E existing_entities \in {jembatan_entities, <<>>} :
          LET existing_labels ==
                  {existing_entities[i].label : i \in DOMAIN existing_entities}
              all == to_import(features, existing_labels)
          IN /\ entities_to_import' =
                    IF import_limit > 0 /\ Len(all) > import_limit
                    THEN SubSeq(all, 1, import_limit)
                    ELSE all
             /\ jpc' = IF all = <<>> THEN "done" ELSE "loop"
             /\ jidx' = 1
    /\ UNCHANGED <<jembatan_entities, features, import_limit, jrun, success_count,
                   last_run>>
    /\ UNCHANGED <<nameVars, storeVars, odk_entities, syncVars, recVars, resolveVars, dryVars, notJembatan>>

\* lines 266-274: one entity is created, or the platform refuses it and the
\* loop goes on
ImportCreateEntity ==
    /\ jpc = "loop"
    /\ \/ /\ jembatan_entities' = PlatformCreate(jembatan_entities, entities_to_import[jidx])
          /\ success_count' = success_count + 1
          /\ UNCHANGED last_run
       \/ /\ last_run' = "errors"
          /\ UNCHANGED <<jembatan_entities, success_count>>
    /\ jidx' = jidx + 1
    /\ jpc' = IF jidx + 1 > Len(entities_to_import) THEN "done" ELSE "loop"
    /\ UNCHANGED <<features, import_limit, entities_to_import, jrun>>
    /\ UNCHANGED <<nameVars, storeVars, odk_entities, syncVars, recVars, resolveVars, dryVars, notJembatan>>

\* the script is run again over the same file. last_run keeps how the run
\* that ended went: "clean" when every feature it had to import was created
ImportRunAgain ==
    /\ jpc = "done"
    /\ jrun < MaxRuns
    /\ jrun' = jrun + 1
    /\ last_run' =
          IF last_run = "errors"
             \/ (import_limit > 0 /\ Len(to_import(features, {})) > import_limit)
          THEN "errors" ELSE "clean"
    /\ jpc' = "existing"
    /\ entities_to_import' = <<>>
    /\ jidx' = 0
    /\ success_count' = 0
    /\ UNCHANGED <<jembatan_entities, features, import_limit>>
    /\ UNCHANGED <<nameVars, storeVars, odk_entities, syncVars, recVars, resolveVars, dryVars, notJembatan>>

\* main after the dataset and its properties are there (lines 151-223): the
\* dataset is empty or has one entity that a form created
InitImport ==
    /\ jembatan_entities \in
          {<<>>, <<[label |-> "Jembatan Krueng A", imported |-> FALSE]>>}
    /\ features \in FeatureLists
    /\ import_limit \in {0, 1}
    /\ jpc = "existing"
    /\ entities_to_import = <<>>
    /\ jidx = 0
    /\ jrun = 1
    /\ success_count = 0
    /\ last_run = "none"
    /\ StoreIdle
    /\ SyncIdle
    /\ RecIdle
    /\ NamesIdle
    /\ ResolveIdle
    /\ DryIdle
    /\ FaskesIdle
    /\ PhotosIdle
    /\ ApproveIdle

NextImport ==
    \/ ImportCheckExisting
    \/ ImportCreateEntity
    \/ ImportRunAgain

SpecImport == InitImport /\ [][NextImport]_vars

\* C29: no imported entity has the label of an entity that was in the
\* dataset before it, so that the dataset has at most one imported entity
\* per label, also when several features share a name; and a run after a run
\* that created every feature it had to creates nothing.
ImportsOncePerLabel ==
    /\ \A i, j \in DOMAIN jembatan_entities :
          (i < j /\ jembatan_entities[j].imported)
             => jembatan_entities[i].label /= jembatan_entities[j].label
    /\ last_run = "clean" => success_count = 0

-----------------------------------------------------------------------------
(* update_odk_photos.py: the progress file and the submissions over runs *)

\* the first eight characters of the entity ids of the mapping
PhotoIds == {"0a1b2c3d", "4e5f6a7b"}

\* an entry of entity_mapping.json: its photos, and whether the first of
\* them is in PHOTO_DIR (photo_path.exists(), line 200)
MappingEntries ==
    {[entity_id |-> e, photos |-> <<>>, on_disk |-> FALSE] : e \in PhotoIds}
    \cup {[entity_id |-> e, photos |-> <<"IMG_0001.jpg">>, on_disk |-> d] :
             e \in PhotoIds, d \in BOOLEAN}

\* the mapping files: up to MaxItems entries
Mappings == UNION {[1..n -> MappingEntries] : n \in 1..MaxItems}

\* a submission before any run: without a front photo, or with one that a
\* field worker sent
SubmissionStates ==
    {[foto_depan |-> "", attachments |-> {}],
     [foto_depan |-> "foto_lama.jpg", attachments |-> {"foto_lama.jpg"}]}

\* line 45: the progress when there is no progress file
NoProgress == [processed |-> <<>>, failed |-> <<>>, skipped |-> <<>>]

\* line 205
new_photo_filename(entity_id) == "foto_depan_" \o entity_id \o ".jpg"

\* lines 119-143 of update_xml_with_photo, on the front photo of the XML:
\* the XML with the photo's name, or None (<<>>) when it has one already
update_xml_with_photo(xml_content, photo_filename) ==
    IF xml_content.foto_depan = ""
    THEN [xml_content EXCEPT !.foto_depan = photo_filename]
    ELSE <<>>

\* the answers of the platform to the four requests of one entry
PhotoAnswers == [xml : BOOLEAN, info : BOOLEAN, put : BOOLEAN, post : BOOLEAN]

\* lines 276-297 of main: the entries with photos, cut at the limit
entries_with_photos(entries, limit) ==
    LET with == SelectSeq(entries, LAMBDA en : en.photos /= <<>>)
    IN IF limit > 0 /\ Len(with) > limit THEN SubSeq(with, 1, limit) ELSE with

\* a mutant of process_entry_result: the entry succeeds once the new version is
\* accepted, whatever becomes of the attachment
process_entry_result_put_only(entry, prog, sub, ans) ==
    LET filename == new_photo_filename(entry.entity_id)
        updated_xml == update_xml_with_photo([foto_depan |-> sub.foto_depan], filename)
        none == [status |-> "", message |-> "", sent |-> <<>>, sub |-> sub]
    IN IF entry.photos = <<>>
       THEN [none EXCEPT !.status = "skipped", !.message = "no photos"]
       ELSE IF \E i \in DOMAIN prog.processed : prog.processed[i] = entry.entity_id
       THEN [none EXCEPT !.status = "skipped", !.message = "already processed"]
       ELSE IF ~entry.on_disk
       THEN [none EXCEPT !.status = "failed", !.message = "photo not found"]
       ELSE IF ~ans.xml
       THEN [none EXCEPT !.status = "failed", !.message = "could not download XML"]
       ELSE IF ~ans.info
       THEN [none EXCEPT !.status = "failed",
                         !.message = "could not get submission info"]
       ELSE IF DOMAIN updated_xml = {}
       THEN [none EXCEPT !.status = "skipped",
                         !.message = "foto_depan already has value"]
       ELSE IF ~ans.put
       THEN [none EXCEPT !.status = "failed", !.message = "upload failed",
                         !.sent = <<[kind |-> "PUT", ok |-> FALSE]>>]
       ELSE [status |-> "success", message |-> filename,
             sent |-> <<[kind |-> "PUT", ok |-> TRUE],
                        [kind |-> "POST", ok |-> ans.post]>>,
             sub |-> [foto_depan |-> updated_xml.foto_depan,
                      attachments |->
                          IF ans.post THEN sub.attachments \cup {filename}
                          ELSE sub.attachments]]

\* lines 179-252: one entry of the mapping. sub is the submission as the
\* platform holds it, ans the platform's answers; the result has the status
\* and message returned, the PUT and POST requests sent, and the submission
\* afterwards
process_entry_result(entry, prog, sub, ans) ==
    LET filename == new_photo_filename(entry.entity_id)
        updated_xml == update_xml_with_photo([foto_depan |-> sub.foto_depan], filename)
        none == [status |-> "", message |-> "", sent |-> <<>>, sub |-> sub]
    IN IF entry.photos = <<>>
       THEN [none EXCEPT !.status = "skipped", !.message = "no photos"]
       ELSE IF \E i \in DOMAIN prog.processed : prog.processed[i] = entry.entity_id
       THEN [none EXCEPT !.status = "skipped", !.message = "already processed"]
       ELSE IF ~entry.on_disk
       THEN [none EXCEPT !.status = "failed", !.message = "photo not found"]
       ELSE IF ~ans.xml
       THEN [none EXCEPT !.status = "failed", !.message = "could not download XML"]
       ELSE IF ~ans.info
       THEN [none EXCEPT !.status = "failed",
                         !.message = "could not get submission info"]
       ELSE IF DOMAIN updated_xml = {}
       THEN [none EXCEPT !.status = "skipped",
                         !.message = "foto_depan already has value"]
       ELSE IF ~ans.put
       THEN [none EXCEPT !.status = "failed", !.message = "upload failed",
                         !.sent = <<[kind |-> "PUT", ok |-> FALSE]>>]
       ELSE IF ~ans.post
       THEN [status |-> "failed", message |-> "attachment failed",
             sent |-> <<[kind |-> "PUT", ok |-> TRUE],
                        [kind |-> "POST", ok |-> FALSE]>>,
             sub |-> [sub EXCEPT !.foto_depan = updated_xml.foto_depan]]
       ELSE [status |-> "success", message |-> filename,
             sent |-> <<[kind |-> "PUT", ok |-> TRUE],
                        [kind |-> "POST", ok |-> TRUE]>>,
             sub |-> [foto_depan |-> updated_xml.foto_depan,
                      attachments |-> sub.attachments \cup {filename}]]

\* lines 325-336 and 339: the progress after an entry
record_progress(prog, entity_id, res) ==
    IF res.status = "success"
    THEN [prog EXCEPT !.processed = Append(@, entity_id)]
    ELSE IF res.status = "failed"
    THEN [prog EXCEPT !.failed =
             Append(@, [entity_id |-> entity_id, error |-> res.message])]
    ELSE [prog EXCEPT !.skipped =
             Append(@, [entity_id |-> entity_id, reason |-> res.message])]

\* lines 255-306 of main: the arguments, the mapping and the progress, which
\* --reset-progress empties
UploadStartRun ==
    /\ ppc = "start"
    /\ \E reset_progress \in BOOLEAN :
          progress' = IF reset_progress THEN NoProgress ELSE progress
    /\ pdry' \in BOOLEAN
    /\ pidx' = 1
    /\ ppc' = IF entries_with_photos(mapping, photo_limit) = <<>>
              THEN "done" ELSE "loop"
    /\ run_good' = accepting
    /\ UNCHANGED <<mapping, photo_limit, submissions, photo_log, prun, accepting>>
    /\ UNCHANGED <<nameVars, storeVars, odk_entities, syncVars, recVars, resolveVars, dryVars, notPhotos>>

\* lines 308-348 of main: one entry; with --dry-run it is only printed
UploadProcessEntry ==
    /\ ppc = "loop"
    /\ LET entries == entries_with_photos(mapping, photo_limit)
           entry == entries[pidx]
           entity_id == entry.entity_id
       IN /\ IF pdry
             THEN UNCHANGED <<progress, submissions, photo_log>>
             ELSE \E ans \in PhotoAnswers :
                     /\ accepting => (ans.xml /\ ans.info /\ ans.put /\ ans.post)
                     /\ LET res == process_entry_result(entry, progress,
                                                        submissions[entity_id], ans)
                        IN /\ progress' = record_progress(progress, entity_id, res)
                           /\ submissions' =
                                 [submissions EXCEPT ![entity_id] = res.sub]
                           /\ photo_log' = photo_log \o
                                 [i \in 1..Len(res.sent) |->
                                     [run |-> prun, entity_id |-> entity_id,
                                      kind |-> res.sent[i].kind,
                                      ok |-> res.sent[i].ok]]
          /\ pidx' = pidx + 1
          /\ ppc' = IF pidx + 1 > Len(entries) THEN "done" ELSE "loop"
    /\ UNCHANGED <<mapping, photo_limit, prun, pdry, accepting, run_good>>
    /\ UNCHANGED <<nameVars, storeVars, odk_entities, syncVars, recVars, resolveVars, dryVars, notPhotos>>

\* the script is run again, with the progress file the last run left
UploadRunAgain ==
    /\ ppc = "done"
    /\ prun < MaxRuns
    /\ prun' = prun + 1
    /\ ppc' = "start"
    /\ pidx' = 0
    /\ UNCHANGED <<mapping, photo_limit, progress, submissions, photo_log, pdry,
                   accepting, run_good>>
    /\ UNCHANGED <<nameVars, storeVars, odk_entities, syncVars, recVars, resolveVars, dryVars, notPhotos>>

\* the platform and the network recover: every request is accepted from
\* now on
PlatformRecovers ==
    /\ ~accepting
    /\ ppc \in {"start", "loop", "done"}
    /\ submissions /= <<>>
    /\ accepting' = TRUE
    /\ UNCHANGED <<mapping, photo_limit, progress, submissions, photo_log, ppc,
                   pidx, prun, pdry, run_good>>
    /\ UNCHANGED <<nameVars, storeVars, odk_entities, syncVars, recVars, resolveVars, dryVars, notPhotos>>

\* before the first run: no progress file, and the submissions as they were
\* sent from the field
InitPhotos ==
    /\ mapping \in Mappings
    /\ photo_limit \in {0, 1}
    /\ progress = NoProgress
    /\ submissions \in [PhotoIds -> SubmissionStates]
    /\ photo_log = <<>>
    /\ ppc = "start"
    /\ pidx = 0
    /\ prun = 1
    /\ pdry = FALSE
    /\ accepting = FALSE
    /\ run_good = FALSE
    /\ StoreIdle
    /\ SyncIdle
    /\ RecIdle
    /\ NamesIdle
    /\ ResolveIdle
    /\ DryIdle
    /\ FaskesIdle
    /\ JembatanIdle
    /\ ApproveIdle

NextPhotos ==
    \/ UploadStartRun
    \/ UploadProcessEntry
    \/ UploadRunAgain
    \/ PlatformRecovers

SpecPhotos == InitPhotos /\ [][NextPhotos]_vars

\* the entity ids in progress["processed"]
ProcessedIds == {progress.processed[i] : i \in DOMAIN progress.processed}

\* the requests of one kind sent for an entity and accepted, as positions
\* of the log
AcceptedRequests(e, kind) ==
    {i \in DOMAIN photo_log :
        photo_log[i].entity_id = e /\ photo_log[i].kind = kind /\ photo_log[i].ok}

\* the requests sent for an entity
RequestsFor(e) == SelectSeq(photo_log, LAMBDA rq : rq.entity_id = e)

\* C27: an entity id is in 'processed' only after the platform accepted
\* both the new submission version and the attachment for it, and no step
\* sends a submission version or an attachment for an entity whose id is in
\* 'processed'.
ProcessedOnlyAfterBoth ==
    /\ [](\A e \in ProcessedIds :
             \E i \in AcceptedRequests(e, "PUT"), j \in AcceptedRequests(e, "POST") :
                 i < j)
    /\ [][\A e \in PhotoIds :
             e \in ProcessedIds => RequestsFor(e)' = RequestsFor(e)]_vars

\* C27 witness: a second run went over an entry that the first run had
\* recorded as processed
ProcessedMetAgain ==
    /\ prun = 2
    /\ ppc = "done"
    /\ ~pdry
    /\ \E i \in DOMAIN entries_with_photos(mapping, photo_limit) :
          LET e == entries_with_photos(mapping, photo_limit)[i].entity_id
          IN /\ e \in ProcessedIds
             /\ \E k \in DOMAIN progress.skipped :
                   /\ progress.skipped[k].entity_id = e
                   /\ progress.skipped[k].reason = "already processed"

\* the new version of the entity's submission was accepted in a run before
\* this one, and its attachment in none of them
HalfDoneBefore(e, r) ==
    /\ \E i \in AcceptedRequests(e, "PUT") : photo_log[i].run < r
    /\ \A j \in AcceptedRequests(e, "POST") : photo_log[j].run >= r

\* C28: an entry whose new submission version was accepted and whose
\* attachment failed is completed by a later run: at the end of a run that
\* went over the entry with the platform accepting every request, the
\* attachment is uploaded and the entity is recorded as processed.
LaterRunCompletesEntry ==
    (ppc = "done" /\ run_good /\ ~pdry)
       => \A i \in DOMAIN entries_with_photos(mapping, photo_limit) :
             LET e == entries_with_photos(mapping, photo_limit)[i].entity_id
             IN HalfDoneBefore(e, prun)
                   => /\ AcceptedRequests(e, "POST") /= {}
                      /\ e \in ProcessedIds

-----------------------------------------------------------------------------
(* approve_submissions.py: the review states main writes *)

\* the review states of the platform (line 66); "null" is JSON null
ReviewStates == {"null", "hasIssues", "edited", "approved", "rejected"}

\* the instanceId of the i-th submission of the form
InstanceIdOf(i) == <<"uuid:a1", "uuid:b2", "uuid:c3", "uuid:d4">>[i]

\* the submissions of the form, as GET .../submissions lists them
SubmissionList(states) ==
    [i \in DOMAIN states |->
        [instanceId |-> InstanceIdOf(i), reviewState |-> states[i]]]

\* Python's seq[:n]
SliceTo(seq, n) ==
    IF n >= 0
    THEN SubSeq(seq, 1, IF n < Len(seq) THEN n ELSE Len(seq))
    ELSE SubSeq(seq, 1, IF Len(seq) + n > 0 THEN Len(seq) + n ELSE 0)

\* a mutant of to_approve: the edited submissions are added without the flag
to_approve_with_edited(subs, incl) ==
    SelectSeq(subs, LAMBDA sb : sb.reviewState = "null")
       \o SelectSeq(subs, LAMBDA sb : sb.reviewState = "edited")

\* lines 119-129: the pending submissions, then the edited ones when
\* --include-edited is given
to_approve(subs, incl) ==
    LET pending == SelectSeq(subs, LAMBDA sb : sb.reviewState = "null")
        edited == SelectSeq(subs, LAMBDA sb : sb.reviewState = "edited")
    IN IF incl THEN pending \o edited ELSE pending

\* lines 114-137: the submissions ([] when the request fails), those to
\* approve, the return when there is none, and the limit. The run is one
\* without --dry-run
ReviewFetch ==
    /\ apc = "fetch"
    /\ fetched_subs' \in {SubmissionList(review_states), <<>>}
    /\ LET all == to_approve(fetched_subs', include_edited)
       IN /\ to_process' =
                 IF all = <<>> THEN <<>>
                 ELSE IF approve_limit = 0 THEN all
                 ELSE SliceTo(all, approve_limit)
          /\ apc' = IF to_process' = <<>> THEN "done" ELSE "loop"
    /\ aidx' = 1
    /\ UNCHANGED <<review_states, include_edited, approve_limit, review_writes>>
    /\ UNCHANGED <<nameVars, storeVars, odk_entities, syncVars, recVars, resolveVars, dryVars, notApprove>>

\* lines 153-162 with set_review_state (63-78): one submission is set to
\* 'approved', or the platform refuses and the loop goes on
ReviewApproveOne ==
    /\ apc = "loop"
    /\ LET instance_id == to_process[aidx].instanceId
           i == CHOOSE k \in DOMAIN review_states : InstanceIdOf(k) = instance_id
       IN \E ok \in BOOLEAN :
             /\ review_states' =
                   IF ok THEN [review_states EXCEPT ![i] = "approved"]
                   ELSE review_states
             /\ review_writes' =
                   Append(review_writes,
                          [instanceId |-> instance_id, state |-> "approved",
                           ok |-> ok])
    /\ aidx' = aidx + 1
    /\ apc' = IF aidx + 1 > Len(to_process) THEN "done" ELSE "loop"
    /\ UNCHANGED <<include_edited, approve_limit, fetched_subs, to_process>>
    /\ UNCHANGED <<nameVars, storeVars, odk_entities, syncVars, recVars, resolveVars, dryVars, notApprove>>

\* a reviewer of the platform sets the review state of a submission while
\* the script runs
ReviewerSets ==
    /\ apc \in {"fetch", "loop"}
    /\ \E i \in DOMAIN review_states, st \in ReviewStates \ {"null"} :
          /\ st /= review_states[i]
          /\ review_states' = [review_states EXCEPT ![i] = st]
    /\ UNCHANGED <<include_edited, approve_limit, apc, fetched_subs, to_process,
                   aidx, review_writes>>
    /\ UNCHANGED <<nameVars, storeVars, odk_entities, syncVars, recVars, resolveVars, dryVars, notApprove>>

\* main after authentication (lines 81-112), with up to MaxItems
\* submissions in the form
InitApprove ==
    /\ review_states \in UNION {[1..n -> ReviewStates] : n \in 0..MaxItems}
    /\ include_edited \in BOOLEAN
    /\ approve_limit \in {-1, 0, 1, 2}
    /\ apc = "fetch"
    /\ fetched_subs = <<>>
    /\ to_process = <<>>
    /\ aidx = 0
    /\ review_writes = <<>>
    /\ StoreIdle
    /\ SyncIdle
    /\ RecIdle
    /\ NamesIdle
    /\ ResolveIdle
    /\ DryIdle
    /\ FaskesIdle
    /\ JembatanIdle
    /\ PhotosIdle

NextApprove ==
    \/ ReviewFetch
    \/ ReviewApproveOne
    \/ ReviewerSets

SpecApprove == InitApprove /\ [][NextApprove]_vars

\* the review state a submission had when it was fetched
FetchedState(instance_id) ==
    LET i == CHOOSE k \in DOMAIN fetched_subs :
                 fetched_subs[k].instanceId = instance_id
    IN fetched_subs[i].reviewState

\* C30: every write sets 'approved' on a submission that was fetched in
\* state null, or 'edited' when --include-edited is given; with --limit
\* N > 0 at most N submissions are written; and an edited submission is
\* written only after every submission fetched as pending.
ApprovesOnlyPending ==
    /\ \A w \in DOMAIN review_writes :
          /\ review_writes[w].state = "approved"
          /\ \E k \in DOMAIN fetched_subs :
                fetched_subs[k].instanceId = review_writes[w].instanceId
          /\ FetchedState(review_writes[w].instanceId) \in
                (IF include_edited THEN {"null", "edited"} ELSE {"null"})
    /\ approve_limit > 0 => Len(review_writes) <= approve_limit
    /\ \A w \in DOMAIN review_writes :
          FetchedState(review_writes[w].instanceId) = "edited"
             => \A k \in DOMAIN fetched_subs :
                   fetched_subs[k].reviewState = "null"
                      => \E v \in 1..(w - 1) :
                            review_writes[v].instanceId = fetched_subs[k].instanceId

\* C30 witness: with --include-edited and --limit 1 the form lists an
\* edited submission before a pending one, and the run wrote the pending one
\* only
LimitTakesPendingFirst ==
    /\ apc = "done"
    /\ include_edited
    /\ approve_limit = 1
    /\ Len(fetched_subs) = 2
    /\ fetched_subs[1].reviewState = "edited"
    /\ fetched_subs[2].reviewState = "null"
    /\ Len(review_writes) = 1
    /\ review_writes[1].instanceId = fetched_subs[2].instanceId

-----------------------------------------------------------------------------
(* The scripts with a --dry-run flag and the requests they send *)

Scripts ==
    {"update_faskes_kecamatan_desa", "import_jembatan_entities",
     "approve_submissions", "update_odk_photos"}

\* import_jembatan_entities.main, lines 205-211: the first of the seventeen
\* properties of the dataset
required_properties == <<"nama", "objectid">>

\* the requests that change something on the platform
StateChanging ==
    {"POST dataset", "POST property", "POST entity", "PATCH entity",
     "PUT submission", "PATCH reviewState", "POST attachment"}

Send(rs) == requests' = requests \o rs

\* the loop goes on to its next record, or main ends after the last one
NextItem ==
    /\ items' = items - 1
    /\ spc' = IF items - 1 = 0 THEN "done" ELSE "loop"

\* client.authenticate(): POST /v1/sessions; main exits when it fails
Authenticate(then) ==
    /\ Send(<<"POST sessions">>)
    /\ spc' \in {then, "exit"}

\* update_faskes_kecamatan_desa.main, lines 251-296: the CSV files are read
\* and, with --dry-run, a sample is printed and main returns
FaskesLoad ==
    /\ script = "update_faskes_kecamatan_desa"
    /\ spc = "start"
    /\ spc' = IF dry_run THEN "done" ELSE "auth"
    /\ UNCHANGED <<script, dry_run, requests, items, dataset_exists>>
    /\ UNCHANGED <<nameVars, storeVars, odk_entities, syncVars, recVars, resolveVars, scriptVars>>

\* lines 298-310
FaskesConnect ==
    /\ script = "update_faskes_kecamatan_desa"
    /\ spc = "auth"
    /\ Authenticate("list")
    /\ UNCHANGED <<script, dry_run, items, dataset_exists>>
    /\ UNCHANGED <<nameVars, storeVars, odk_entities, syncVars, recVars, resolveVars, scriptVars>>

\* lines 312-319: the entity list, or an exception and exit
FaskesFetch ==
    /\ script = "update_faskes_kecamatan_desa"
    /\ spc = "list"
    /\ Send(<<"GET entities">>)
    /\ spc' \in {IF items = 0 THEN "done" ELSE "loop", "exit"}
    /\ UNCHANGED <<script, dry_run, items, dataset_exists>>
    /\ UNCHANGED <<nameVars, storeVars, odk_entities, syncVars, recVars, resolveVars, scriptVars>>

\* lines 330-385: one entity is skipped, or read again and updated
FaskesUpdate ==
    /\ script = "update_faskes_kecamatan_desa"
    /\ spc = "loop"
    /\ \/ UNCHANGED requests
       \/ Send(<<"GET entity", "PATCH entity">>)
    /\ NextItem
    /\ UNCHANGED <<script, dry_run, dataset_exists>>
    /\ UNCHANGED <<nameVars, storeVars, odk_entities, syncVars, recVars, resolveVars, scriptVars>>

\* import_jembatan_entities.main, lines 161-188: credentials, the GeoJSON
\* file and the session
JembatanConnect ==
    /\ script = "import_jembatan_entities"
    /\ spc = "start"
    /\ Authenticate("datasets")
    /\ UNCHANGED <<script, dry_run, items, dataset_exists>>
    /\ UNCHANGED <<nameVars, storeVars, odk_entities, syncVars, recVars, resolveVars, scriptVars>>

\* lines 190-203: the dataset is created when the project does not list it
JembatanDataset ==
    /\ script = "import_jembatan_entities"
    /\ spc = "datasets"
    /\ IF dataset_exists
       THEN /\ Send(<<"GET datasets">>)
            /\ spc' = "properties"
            /\ UNCHANGED dataset_exists
       ELSE /\ Send(<<"GET datasets", "POST dataset">>)
            /\ \/ /\ dataset_exists' = TRUE
                  /\ spc' = "properties"
               \/ /\ spc' = "exit"
                  /\ UNCHANGED dataset_exists
    /\ UNCHANGED <<script, dry_run, items>>
    /\ UNCHANGED <<nameVars, storeVars, odk_entities, syncVars, recVars, resolveVars, scriptVars>>

\* lines 205-223: every required property is added to the dataset's schema
JembatanProperties ==
    /\ script = "import_jembatan_entities"
    /\ spc = "properties"
    /\ Send([i \in DOMAIN required_properties |-> "POST property"])
    /\ spc' = "existing"
    /\ UNCHANGED <<script, dry_run, items, dataset_exists>>
    /\ UNCHANGED <<nameVars, storeVars, odk_entities, syncVars, recVars, resolveVars, scriptVars>>

\* lines 225-259: the existing entities, what is left to import, and the
\* return when nothing is left or with --dry-run
JembatanExisting ==
    /\ script = "import_jembatan_entities"
    /\ spc = "existing"
    /\ Send(<<"GET entities">>)
    /\ spc' = IF items = 0 \/ dry_run THEN "done" ELSE "loop"
    /\ UNCHANGED <<script, dry_run, items, dataset_exists>>
    /\ UNCHANGED <<nameVars, storeVars, odk_entities, syncVars, recVars, resolveVars, scriptVars>>

\* lines 261-274: one entity is created
JembatanCreate ==
    /\ script = "import_jembatan_entities"
    /\ spc = "loop"
    /\ Send(<<"POST entity">>)
    /\ NextItem
    /\ UNCHANGED <<script, dry_run, dataset_exists>>
    /\ UNCHANGED <<nameVars, storeVars, odk_entities, syncVars, recVars, resolveVars, scriptVars>>

\* approve_submissions.main, lines 92-112: credentials and the session
ApproveConnect ==
    /\ script = "approve_submissions"
    /\ spc = "start"
    /\ Authenticate("list")
    /\ UNCHANGED <<script, dry_run, items, dataset_exists>>
    /\ UNCHANGED <<nameVars, storeVars, odk_entities, syncVars, recVars, resolveVars, scriptVars>>

\* lines 114-146: the submissions, those to approve, and the return when
\* there is none or with --dry-run
ApproveFetch ==
    /\ script = "approve_submissions"
    /\ spc = "list"
    /\ Send(<<"GET submissions">>)
    /\ spc' = IF items = 0 \/ dry_run THEN "done" ELSE "loop"
    /\ UNCHANGED <<script, dry_run, items, dataset_exists>>
    /\ UNCHANGED <<nameVars, storeVars, odk_entities, syncVars, recVars, resolveVars, scriptVars>>

\* lines 148-162: one submission is approved
ApproveOne ==
    /\ script = "approve_submissions"
    /\ spc = "loop"
    /\ Send(<<"PATCH reviewState">>)
    /\ NextItem
    /\ UNCHANGED <<script, dry_run, dataset_exists>>
    /\ UNCHANGED <<nameVars, storeVars, odk_entities, syncVars, recVars, resolveVars, scriptVars>>

\* update_odk_photos.main, lines 255-306: the mapping, the progress file and
\* a session object; no request yet
PhotosStart ==
    /\ script = "update_odk_photos"
    /\ spc = "start"
    /\ spc' = IF items = 0 THEN "done" ELSE "loop"
    /\ UNCHANGED <<script, dry_run, requests, items, dataset_exists>>
    /\ UNCHANGED <<nameVars, storeVars, odk_entities, syncVars, recVars, resolveVars, scriptVars>>

\* the requests of process_entry, lines 179-252, as far as it gets
process_entry ==
    { <<>>,
      <<"GET submission.xml">>,
      <<"GET submission.xml", "GET submission">>,
      <<"GET submission.xml", "GET submission", "PUT submission">>,
      <<"GET submission.xml", "GET submission", "PUT submission", "POST attachment">> }

\* lines 308-348: one entry of the mapping; with --dry-run it is only printed
PhotosEntry ==
    /\ script = "update_odk_photos"
    /\ spc = "loop"
    /\ IF dry_run
       THEN UNCHANGED requests
       ELSE \E rs \in process_entry : Send(rs)
    /\ NextItem
    /\ UNCHANGED <<script, dry_run, dataset_exists>>
    /\ UNCHANGED <<nameVars, storeVars, odk_entities, syncVars, recVars, resolveVars, scriptVars>>

InitDryRun ==
    /\ script \in Scripts
    /\ dry_run \in BOOLEAN
    /\ spc = "start"
    /\ requests = <<>>
    /\ items \in 0..MaxItems
    /\ dataset_exists \in BOOLEAN
    /\ StoreIdle
    /\ SyncIdle
    /\ RecIdle
    /\ ScriptsIdle
    /\ NamesIdle
    /\ ResolveIdle

NextDryRun ==
    \/ FaskesLoad
    \/ FaskesConnect
    \/ FaskesFetch
    \/ FaskesUpdate
    \/ JembatanConnect
    \/ JembatanDataset
    \/ JembatanProperties
    \/ JembatanExisting
    \/ JembatanCreate
    \/ ApproveConnect
    \/ ApproveFetch
    \/ ApproveOne
    \/ PhotosStart
    \/ PhotosEntry

SpecDryRun == InitDryRun /\ [][NextDryRun]_vars

\* C20: run with --dry-run, none of the four scripts sends a request that
\* changes something on the platform: no dataset or property creation, no
\* entity create or PATCH, no submission PUT, no review-state change, no
\* attachment upload.
DryRunSendsNoWrite ==
    dry_run => \A i \in DOMAIN requests : requests[i] \notin StateChanging

=============================================================================
